---- MODULE Spec2Model ----
(***************************************************************************)
(* A model of balena-multibuild: the tar demultiplexer (splitBuildStream,  *)
(* fromImageDescriptors), the metadata extractor (BuildMetadata), the task *)
(* generator (generateBuildTasks), the build orchestrator (performBuilds), *)
(* the build driver (runBuildTask, pullExternal), the resolver hooks       *)
(* (resolveTask), the metadata parser (parseMetadata), the registry name   *)
(* parsers (parseRepo), the registry client and PathUtils.                 *)
(*                                                                         *)
(* A path is the sequence of its '/'-separated segments; the string '.'    *)
(* is <<".">>, the empty string is << >>.  Only relative paths without a   *)
(* trailing slash are modelled.                                            *)
(***************************************************************************)
EXTENDS Integers, Sequences, FiniteSets, TLC

VARIABLES
    images,         \* the image descriptors of the composition
    archive,        \* the input tar archive: a sequence of entries
    wellFormed,     \* the input archive has no framing or body error
    tasks,          \* the BuildTasks generated from the descriptors
    packs,          \* the tar packs created so far (index = pack identity)
    alternateDockerfiles, \* { filename: BuildTask[] } of fromImageDescriptors
    xstate,         \* the tar extractor: idle, ready, busy, finished, errored
    pos,            \* number of entries the extractor has emitted
    handler,        \* per input entry: the state of its 'entry' handler
    outcome,        \* the promise returned: pending, resolved, rejected
    failure,        \* the error the promise was rejected with
    foundMetadataDirectory, \* extractMetadata's local of that name
    metadataFiles,  \* BuildMetadata.metadataFiles
    builds,         \* performBuilds: per task, the state of runBuildTask
    results,        \* performBuilds: the array Bluebird.map fills
    completion,     \* performBuilds: task indices in order of completion
    buildTask,      \* runBuildTask: the BuildTask it was called with
    signal,         \* task.resolvedPromise: none, pending, fired, error
    resolver,       \* the position of the task's resolver
    driver,         \* the position of runBuildTask
    env,            \* the daemon, the registries and the archive's secrets
    imageReferences, \* checkAllowDockerPlatformHandling's local
    daemonCall,     \* the pull or build the daemon was asked for
    usePlatformOption, \* runBuildTask's local of that name
    startTime,      \* the start time recorded for the build or the pull
    clock,          \* Date.now()
    localImage,     \* the LocalImage that runBuildTask resolves with
    balenaYml,      \* BuildMetadata.balenaYml
    registrySecrets, \* BuildMetadata.registrySecrets
    repoArg,        \* the argument parseRepo is called with
    repo,           \* the ParsedRepo: RegistryClient.repo
    loginConfig,    \* RegistryClient.loginConfig
    currentAuth,    \* RegistryClient.currentAuth
    call,           \* the method of the client that is running
    response,       \* the arguments of the last request callback
    result,         \* what the last call of the client settled with
    pathArgs,       \* the paths PathUtils.contains is asked about
    containment,    \* what PathUtils.contains returned for them
    secretSource,   \* the argument of BuildMetadata.getSecretFile
    secretFile      \* what BuildMetadata.getSecretFile returned

vars == <<images, archive, wellFormed, tasks, packs, alternateDockerfiles,
          xstate, pos, handler, outcome, failure, foundMetadataDirectory,
          metadataFiles, builds, results, completion, buildTask, signal,
          resolver, driver, env, imageReferences, daemonCall,
          usePlatformOption, startTime,
          clock, localImage, balenaYml, registrySecrets, repoArg, repo,
          loginConfig, currentAuth, call, response, result, pathArgs,
          containment, secretSource, secretFile>>

demuxVars == <<images, archive, wellFormed, tasks, packs,
               alternateDockerfiles, xstate, pos, handler, outcome, failure>>
metaVars == <<foundMetadataDirectory, metadataFiles>>
buildVars == <<builds, results, completion>>
runVars == <<buildTask, signal, resolver, driver, env, imageReferences,
             daemonCall,
             usePlatformOption, startTime, clock, localImage>>
parseVars == <<balenaYml, registrySecrets>>
repoVars == <<repoArg, repo>>
clientVars == <<loginConfig, currentAuth, call, response, result>>
pathVars == <<pathArgs, containment>>
secretVars == <<secretSource, secretFile>>
extVars == <<parseVars, repoVars, clientVars, pathVars, secretVars>>

(***************************************************************************)
(* Bounds of the model.                                                    *)
(***************************************************************************)
MaxTasks == 2
MaxEntries == 2

Null == <<"$undefined">>        \* an absent path-valued field
NoPack == 0                     \* an absent buildStream

Max(a, b) == IF a >= b THEN a ELSE b
Min(a, b) == IF a <= b THEN a ELSE b
Range(s) == {s[i] : i \in 1..Len(s)}

(***************************************************************************)
(* PathUtils: node's path.normalize and path.relative on POSIX, and        *)
(* contains.                                                               *)
(***************************************************************************)
\* the working directory path.relative resolves relative paths against
Cwd == <<"$c1", "$c2", "$c3">>

\* segments whose text ends in '..'
EndsDotDot(seg) == seg \in {"..", "a.."}

RECURSIVE normalizeArray(_, _, _)
normalizeArray(parts, acc, allowAboveRoot) ==
    IF parts = << >> THEN acc
    ELSE LET seg == Head(parts)
             rest == Tail(parts)
         IN  IF seg = "." THEN normalizeArray(rest, acc, allowAboveRoot)
             ELSE IF seg = ".."
             THEN IF acc # << >> /\ acc[Len(acc)] # ".."
                  THEN normalizeArray(rest, SubSeq(acc, 1, Len(acc) - 1),
                                      allowAboveRoot)
                  ELSE IF allowAboveRoot
                  THEN normalizeArray(rest, Append(acc, ".."), allowAboveRoot)
                  ELSE normalizeArray(rest, acc, allowAboveRoot)
             ELSE normalizeArray(rest, Append(acc, seg), allowAboveRoot)

normalize(path) ==
    LET n == normalizeArray(path, << >>, TRUE)
    IN  IF n = << >> THEN <<".">> ELSE n

\* path.resolve of a relative path: an absolute path, as its segments
resolve(path) == normalizeArray(Cwd \o path, << >>, FALSE)

RECURSIVE commonPrefixLen(_, _)
commonPrefixLen(a, b) ==
    IF a = << >> \/ b = << >> \/ Head(a) # Head(b) THEN 0
    ELSE 1 + commonPrefixLen(Tail(a), Tail(b))

relative(from, to) ==
    LET f == resolve(from)
        t == resolve(to)
        k == commonPrefixLen(f, t)
    IN  [i \in 1..(Len(f) - k) |-> ".."] \o SubSeq(t, k + 1, Len(t))

\* /^\.\.$|\.\.\// tested on the '/'-joined text of a path
matchesDotDot(rel) ==
    \/ rel = <<"..">>
    \/ \E i \in 1..(Len(rel) - 1) : EndsDotDot(rel[i])

contains(path1, path2) ==
    ~ matchesDotDot(relative(normalize(path1), normalize(path2)))

\* path.normalize(undefined) throws a TypeError
containsThrows(path1, path2) == path1 = Null \/ path2 = Null

(***************************************************************************)
(* TaskSet: generateBuildTasks.                                            *)
(***************************************************************************)
\* an image descriptor whose image is a string (an external image)
ExternalImage(svc, name) ==
    [serviceName |-> svc, isString |-> TRUE, image |-> name,
     context |-> Null, dockerfile |-> Null]

\* an image descriptor whose image is a build configuration
BuildImage(svc, ctx, df) ==
    [serviceName |-> svc, isString |-> FALSE, image |-> "$undefined",
     context |-> ctx, dockerfile |-> df]

Indices(n) == [i \in 1..n |-> i]

\* the number of tar.pack() calls made for the descriptors 1..i
packsBefore(imgs, i) == Cardinality({j \in 1..i : ~ imgs[j].isString})

\* 'Must have a context specified with a Dockerfile' is thrown
generateBuildTasksThrows(imgs) ==
    \E i \in 1..Len(imgs) : ~ imgs[i].isString /\ imgs[i].context = Null

\* one pack handed to every build task instead of a new one each
sharedPack(imgs, i, nPacks) == nPacks + 1

\* the identity of the pack that tar.pack() returns for descriptor i
freshPack(imgs, i, nPacks) == nPacks + packsBefore(imgs, i)

generateBuildTasks(imgs, nPacks) ==
    [i \in 1..Len(imgs) |->
        IF imgs[i].isString
        THEN [external |-> TRUE, imageName |-> imgs[i].image,
              serviceName |-> imgs[i].serviceName, resolved |-> FALSE,
              buildStream |-> NoPack, context |-> Null,
              dockerfile |-> Null, dockerfilePath |-> Null]
        ELSE [external |-> FALSE, imageName |-> "$undefined",
              serviceName |-> imgs[i].serviceName, resolved |-> FALSE,
              buildStream |-> freshPack(imgs, i, nPacks),
              context |-> imgs[i].context,
              dockerfile |-> imgs[i].dockerfile,
              dockerfilePath |-> imgs[i].dockerfile]]

EmptyPack == [entries |-> << >>, finalized |-> 0]

(***************************************************************************)
(* TarDemux: fromImageDescriptors.                                         *)
(***************************************************************************)
ALTERNATE_DOCKERFILE_PATH == <<".resin", "Dockerfile">>

\* a JavaScript string is truthy unless it is undefined or empty
truthy(path) == path # Null /\ path # << >>

\* the dictionary built by getAlternateDockerfiles
getAlternateDockerfiles(ts) ==
    [key \in {ts[i].dockerfile : i \in {j \in 1..Len(ts) : truthy(ts[j].dockerfile)}}
        |-> SelectSeq(Indices(Len(ts)), LAMBDA i : ts[i].dockerfile = key)]

\* the tasks as getAlternateDockerfiles leaves them
renameDockerfiles(ts) ==
    [i \in 1..Len(ts) |->
        IF truthy(ts[i].dockerfile)
        THEN [ts[i] EXCEPT !.dockerfile = ALTERNATE_DOCKERFILE_PATH]
        ELSE ts[i]]

\* pack.entry(header, buffer): ignored once the pack is finalized
packEntry(pack, name, buffer) ==
    IF pack.finalized > 0 THEN pack
    ELSE [pack EXCEPT !.entries = Append(@, [name |-> name, data |-> buffer])]

RECURSIVE copyToTasksBuildStreams(_, _, _, _, _)
copyToTasksBuildStreams(pk, ts, taskList, buffer, name) ==
    IF taskList = << >> THEN pk
    ELSE LET p == ts[Head(taskList)].buildStream
         IN  copyToTasksBuildStreams(
                 [pk EXCEPT ![p] = packEntry(@, name, buffer)],
                 ts, Tail(taskList), buffer, name)

\* alternateDockerfiles[PathUtils.normalize(header.name)] || []
tasksMatchingAlternateDockerfile(name) ==
    IF normalize(name) \in DOMAIN alternateDockerfiles
    THEN alternateDockerfiles[normalize(name)]
    ELSE << >>

\* the predicate of _.filter(tasks, ...)
matchesTask(task, name) ==
    ~ task.external \/ contains(task.context, name)

\* the predicate throws when it evaluates contains on an absent context
matchesTaskThrows(task, name) ==
    task.external /\ containsThrows(task.context, name)

matchingTasks(name) ==
    SelectSeq(Indices(Len(tasks)), LAMBDA i : matchesTask(tasks[i], name))

filterThrows(name) ==
    \E i \in 1..Len(tasks) : matchesTaskThrows(tasks[i], name)

reject(err) ==
    IF outcome = "pending"
    THEN outcome' = "rejected" /\ failure' = err
    ELSE UNCHANGED <<outcome, failure>>

\* new Bluebird(...): generate the tasks, collect the alternate
\* Dockerfiles, pipe the input into the extractor
Start ==
    /\ xstate = "idle"
    /\ outcome = "pending"
    /\ IF generateBuildTasksThrows(images)
       THEN /\ reject("Error")
            /\ xstate' = "errored"
            /\ UNCHANGED <<tasks, packs, alternateDockerfiles>>
       ELSE LET ts == generateBuildTasks(images, Len(packs))
            IN  /\ tasks' = renameDockerfiles(ts)
                /\ alternateDockerfiles' = getAlternateDockerfiles(ts)
                /\ packs' = packs \o [i \in 1..packsBefore(images, Len(images))
                                        |-> EmptyPack]
                /\ xstate' = "ready"
                /\ UNCHANGED <<outcome, failure>>
    /\ UNCHANGED <<images, archive, wellFormed, pos, handler>>
    /\ UNCHANGED <<metaVars, buildVars, runVars, extVars>>

\* OnEntry with next() called before the entry's body has been read
OnEntryEager ==
    /\ xstate = "ready"
    /\ pos < Len(archive)
    /\ pos' = pos + 1
    /\ xstate' = "ready"
    /\ LET name == archive[pos + 1].name
       IN  handler' = [handler EXCEPT ![pos + 1] =
               IF filterThrows(name) THEN "crashed"
               ELSE IF Len(matchingTasks(name)) > 0
                       \/ Len(tasksMatchingAlternateDockerfile(name)) > 0
                    THEN "reading"
                    ELSE "draining"]
    /\ UNCHANGED <<images, archive, wellFormed, tasks, packs,
                   alternateDockerfiles, outcome, failure>>
    /\ UNCHANGED <<metaVars, buildVars, runVars, extVars>>

\* extract.on('entry'), up to the await of the entry's body
OnEntry ==
    /\ xstate = "ready"
    /\ pos < Len(archive)
    /\ pos' = pos + 1
    /\ xstate' = "busy"
    /\ LET name == archive[pos + 1].name
       IN  handler' = [handler EXCEPT ![pos + 1] =
               IF filterThrows(name) THEN "crashed"
               ELSE IF Len(matchingTasks(name)) > 0
                       \/ Len(tasksMatchingAlternateDockerfile(name)) > 0
                    THEN "reading"
                    ELSE "draining"]
    /\ UNCHANGED <<images, archive, wellFormed, tasks, packs,
                   alternateDockerfiles, outcome, failure>>
    /\ UNCHANGED <<metaVars, buildVars, runVars, extVars>>

\* the handler of entry i from the settling of the await to next()
OnEntryResume(i, ok) ==
    /\ handler[i] \in {"reading", "draining"}
    /\ ok \/ ~ wellFormed
    /\ LET name == archive[i].name
           buf == archive[i].data
           hasBuf == ok /\ handler[i] = "reading"
           mt == matchingTasks(name)
           at == tasksMatchingAlternateDockerfile(name)
       IN  /\ IF ok THEN UNCHANGED <<outcome, failure>>
                    ELSE reject("TarError")
           /\ IF hasBuf /\ mt = << >>
              THEN \* matchingTasks[0].context throws a TypeError
                   /\ handler' = [handler EXCEPT ![i] = "crashed"]
                   /\ UNCHANGED <<packs, xstate>>
              ELSE /\ handler' = [handler EXCEPT ![i] =
                                     IF ok THEN "done" ELSE "failed"]
                   /\ packs' =
                        IF hasBuf
                        THEN copyToTasksBuildStreams(
                                 copyToTasksBuildStreams(packs, tasks, mt, buf,
                                     relative(tasks[mt[1]].context, name)),
                                 tasks, at, buf, ALTERNATE_DOCKERFILE_PATH)
                        ELSE packs
                   /\ xstate' = IF xstate = "busy" THEN "ready" ELSE xstate
    /\ UNCHANGED <<images, archive, wellFormed, tasks, alternateDockerfiles, pos>>
    /\ UNCHANGED <<metaVars, buildVars, runVars, extVars>>

\* extract.on('finish')
OnFinish ==
    /\ xstate = "ready"
    /\ pos = Len(archive)
    /\ xstate' = "finished"
    /\ packs' = [p \in 1..Len(packs) |->
                    IF \E i \in 1..Len(tasks) :
                          ~ tasks[i].external /\ tasks[i].buildStream = p
                    THEN [packs[p] EXCEPT !.finalized = @ + 1]
                    ELSE packs[p]]
    /\ IF outcome = "pending"
       THEN outcome' = "resolved" /\ UNCHANGED failure
       ELSE UNCHANGED <<outcome, failure>>
    /\ UNCHANGED <<images, archive, wellFormed, tasks, alternateDockerfiles,
                   pos, handler>>
    /\ UNCHANGED <<metaVars, buildVars, runVars, extVars>>

\* extract.on('error'): a framing error of the input archive
OnError ==
    /\ xstate \in {"ready", "busy"}
    /\ ~ wellFormed
    /\ xstate' = "errored"
    /\ reject("TarError")
    /\ handler' = [i \in DOMAIN handler |->
                      IF handler[i] \in {"reading", "draining"}
                      THEN "aborted" ELSE handler[i]]
    /\ UNCHANGED <<images, archive, wellFormed, tasks, packs,
                   alternateDockerfiles, pos>>
    /\ UNCHANGED <<metaVars, buildVars, runVars, extVars>>

(***************************************************************************)
(* The demultiplexer's specification.                                      *)
(***************************************************************************)
ServiceNames == <<"s1", "s2", "s3", "s4">>

\* image descriptors of compositions as the composition parser gives them
DemuxDescriptors(svc) ==
    { ExternalImage(svc, "alpine"),
      BuildImage(svc, <<".">>, Null),
      BuildImage(svc, <<"a">>, Null),
      BuildImage(svc, <<".">>, <<"a", "Alt">>),
      BuildImage(svc, <<".", "a">>, <<"Alt3">>) }

DemuxCompositions ==
    UNION { { c \in [1..n -> UNION {DemuxDescriptors(ServiceNames[i]) : i \in 1..n}] :
                \A i \in 1..n : c[i].serviceName = ServiceNames[i] } :
            n \in 1..MaxTasks }

EntryNames ==
    { <<"Df">>, <<"a", "Df">>, <<".", "a", "Alt">>, <<"Alt3">>, <<"b", "x">> }

\* archives of distinct files; the bytes of entry i are identified by i
Archives ==
    UNION { { [i \in 1..n |-> [name |-> f[i], data |-> i]] :
                f \in { g \in [1..n -> EntryNames] :
                          \A i, j \in 1..n : i # j => g[i] # g[j] } } :
            n \in 0..MaxEntries }

NoMeta ==
    /\ foundMetadataDirectory = Null
    /\ metadataFiles = << >>

\* a time that has not been set
NoTime == -1

\* runBuildTask has not been called
NoRun ==
    /\ buildTask = << >>
    /\ signal = "none"
    /\ resolver = "off"
    /\ driver = "idle"
    /\ env = << >>
    /\ imageReferences = << >>
    /\ daemonCall = << >>
    /\ usePlatformOption = FALSE
    /\ startTime = NoTime
    /\ clock = 0
    /\ localImage = << >>

NoBuilds ==
    /\ builds = << >>
    /\ results = << >>
    /\ completion = << >>

\* parseMetadata has not been called
NoParse ==
    /\ balenaYml = << >>
    /\ registrySecrets = << >>

\* parseRepo has not been called
NoRepo ==
    /\ repoArg = << >>
    /\ repo = << >>

\* no RegistryClient has been constructed
NoClient ==
    /\ loginConfig = << >>
    /\ currentAuth = << >>
    /\ call = << >>
    /\ response = << >>
    /\ result = << >>

\* PathUtils.contains has not been called
NoPath ==
    /\ pathArgs = << >>
    /\ containment = << >>

\* getSecretFile has not been called
NoSecret ==
    /\ secretSource = << >>
    /\ secretFile = << >>

NoExt == NoParse /\ NoRepo /\ NoClient /\ NoPath /\ NoSecret

\* splitBuildStream has not been called
NoDemux ==
    /\ images = << >>
    /\ archive = << >>
    /\ wellFormed = TRUE
    /\ tasks = << >>
    /\ packs = << >>
    /\ alternateDockerfiles = << >>
    /\ xstate = "idle"
    /\ pos = 0
    /\ handler = << >>
    /\ outcome = "pending"
    /\ failure = "none"

DemuxInit ==
    /\ images \in DemuxCompositions
    /\ archive \in Archives
    /\ wellFormed \in BOOLEAN
    /\ tasks = << >>
    /\ packs = << >>
    /\ alternateDockerfiles = << >>
    /\ xstate = "idle"
    /\ pos = 0
    /\ handler = [i \in 1..Len(archive) |-> "none"]
    /\ outcome = "pending"
    /\ failure = "none"
    /\ NoMeta
    /\ NoBuilds
    /\ NoRun
    /\ NoExt

DemuxNext ==
    \/ Start
    \/ OnEntry
    \/ \E i \in 1..Len(archive), ok \in BOOLEAN : OnEntryResume(i, ok)
    \/ OnFinish
    \/ OnError

DemuxSpec == DemuxInit /\ [][DemuxNext]_vars

\* the event loop runs every handler that is ready to run
DemuxFairSpec == DemuxSpec /\ WF_vars(DemuxNext)

(***************************************************************************)
(* Properties of the demultiplexer.                                        *)
(***************************************************************************)
metadataDirectories == << <<".balena">>, <<".resin">> >>

\* path lies in directory dir or below it: dir is a prefix of its segments
LiesUnder(dir, path) ==
    LET n == normalize(path)
    IN  Len(n) >= Len(dir) /\ SubSeq(n, 1, Len(dir)) = dir

UnderMetadataDirectory(path) ==
    \E d \in 1..Len(metadataDirectories) : LiesUnder(metadataDirectories[d], path)

IsBuildTask(t) == ~ tasks[t].external

PackOf(t) == packs[tasks[t].buildStream]

\* the positions in task t's pack that hold the bytes of input entry i
Copies(t, i) ==
    {k \in 1..Len(PackOf(t).entries) : PackOf(t).entries[k].data = i}

\* input entry i is the alternate Dockerfile that descriptor t declares
DeclaresAlternate(t, i) ==
    /\ ~ images[t].isString
    /\ images[t].dockerfile # Null
    /\ normalize(images[t].dockerfile) = normalize(archive[i].name)

\* C1: an input entry outside the metadata directories is written to a
\* task's pack under a context-relative name if and only if the task is a
\* build task whose context contains the entry; apart from the copy named
\* .resin/Dockerfile, no other build task receives it.
C1_RoutedByContext ==
    \A i \in 1..Len(archive) :
        (handler[i] = "done" /\ ~ UnderMetadataDirectory(archive[i].name)) =>
            \A t \in 1..Len(tasks) :
                LET wanted == IsBuildTask(t)
                              /\ contains(tasks[t].context, archive[i].name)
                IN  /\ wanted =>
                          \E k \in Copies(t, i) :
                              PackOf(t).entries[k].name =
                                  relative(tasks[t].context, archive[i].name)
                    /\ (IsBuildTask(t) /\ ~ wanted) =>
                          \A k \in Copies(t, i) :
                              PackOf(t).entries[k].name = ALTERNATE_DOCKERFILE_PATH

\* C2: every entry in a build task's pack is named relative to that task's
\* own context (the alternate Dockerfile copy is named .resin/Dockerfile).
C2_NamedRelativeToOwnContext ==
    \A t \in 1..Len(tasks) :
        IsBuildTask(t) =>
            \A k \in 1..Len(PackOf(t).entries) :
                LET e == PackOf(t).entries[k]
                IN  \/ e.name = relative(tasks[t].context, archive[e.data].name)
                    \/ /\ e.name = ALTERNATE_DOCKERFILE_PATH
                       /\ DeclaresAlternate(t, e.data)

InFlight == {i \in 1..Len(archive) : handler[i] \in {"reading", "draining"}}

\* C3: input entries are handled one at a time: the extractor is not asked
\* for the next entry while an entry's body is being read, and every pack
\* holds its entries in the order of the input archive.
C3_OneEntryAtATime ==
    /\ Cardinality(InFlight) <= 1
    /\ xstate = "ready" => InFlight = {}
    /\ \A i \in InFlight : i = pos /\ \A p \in 1..Len(packs) :
            \A k \in 1..Len(packs[p].entries) : packs[p].entries[k].data < i
    /\ \A p \in 1..Len(packs) :
            \A j, k \in 1..Len(packs[p].entries) :
                j < k => packs[p].entries[j].data <= packs[p].entries[k].data

\* two input entries have been delivered to one pack
C3_Witness ==
    /\ xstate = "finished"
    /\ \E p \in 1..Len(packs) :
          \E j, k \in 1..Len(packs[p].entries) :
              j < k /\ packs[p].entries[j].data < packs[p].entries[k].data

BuildPacksFinalizedOnce ==
    \A t \in 1..Len(tasks) : IsBuildTask(t) => PackOf(t).finalized = 1

\* C4: for a well-formed archive the split eventually resolves, with every
\* build task's pack finalized exactly once.
C4_EventuallyResolves ==
    wellFormed ~> (outcome = "resolved" /\ BuildPacksFinalizedOnce)

\* C5: a run ends in exactly one of error and finalize: after a TarError no
\* pack is finalized, and a run that resolves has finalized every build
\* pack and reported no error.
C5_FinalizeOrError ==
    /\ outcome = "rejected" => \A p \in 1..Len(packs) : packs[p].finalized = 0
    /\ outcome = "resolved" => (BuildPacksFinalizedOnce /\ failure = "none")

\* the handler of entry i has run to its end or has died
Settled(i) == handler[i] \in {"done", "crashed"}

AlternateCopies(t, i) ==
    {k \in Copies(t, i) : PackOf(t).entries[k].name = ALTERNATE_DOCKERFILE_PATH}

\* C6: a build task that declares an alternate Dockerfile present in the
\* archive gets that file exactly once as .resin/Dockerfile and has its
\* Dockerfile path set to .resin/Dockerfile; a task that declares none gets
\* no .resin/Dockerfile entry and keeps its Dockerfile path unset.
C6_AlternateDockerfile ==
    \A t \in 1..Len(tasks) :
        /\ \A i \in 1..Len(archive) :
              (Settled(i) /\ DeclaresAlternate(t, i)) =>
                  /\ Cardinality(AlternateCopies(t, i)) = 1
                  /\ tasks[t].dockerfile = ALTERNATE_DOCKERFILE_PATH
        /\ (IsBuildTask(t) /\ images[t].dockerfile = Null) =>
              /\ tasks[t].dockerfile = Null
              /\ \A k \in 1..Len(PackOf(t).entries) :
                    PackOf(t).entries[k].name # ALTERNATE_DOCKERFILE_PATH

(***************************************************************************)
(* MetadataStore: BuildMetadata.extractMetadata.                           *)
(***************************************************************************)
MaxMetaEntries == 3

QEMU_BIN_NAME == <<"qemu-execve">>

RECURSIVE firstContaining(_, _, _)
firstContaining(dirs, d, path) ==
    IF d > Len(dirs) THEN 0
    ELSE IF contains(dirs[d], path) THEN d
    ELSE firstContaining(dirs, d + 1, path)

\* getMetadataRelativePath with the relative path replaced by the whole one
getMetadataRelativePathWhole(path) ==
    LET d == firstContaining(metadataDirectories, 1, path)
    IN  IF d = 0
        THEN [found |-> FALSE, relativePath |-> Null, metadataDirectory |-> Null]
        ELSE [found |-> TRUE,
              relativePath |-> normalize(path),
              metadataDirectory |-> metadataDirectories[d]]

\* found = FALSE stands for the undefined result
getMetadataRelativePath(path) ==
    LET d == firstContaining(metadataDirectories, 1, path)
    IN  IF d = 0
        THEN [found |-> FALSE, relativePath |-> Null, metadataDirectory |-> Null]
        ELSE [found |-> TRUE,
              relativePath |-> relative(metadataDirectories[d], path),
              metadataDirectory |-> metadataDirectories[d]]

\* the directory check without its comparison of the two directories
otherDirectoryFoundAny(found, dir) == found # Null

\* foundMetadataDirectory != null && foundMetadataDirectory !== ...
otherDirectoryFound(found, dir) == found # Null /\ found # dir

addMetadataFile(files, name, data) ==
    [k \in (DOMAIN files) \cup {name} |-> IF k = name THEN data ELSE files[k]]

\* cloneTarStream's entry callback: onEntry awaited, then the next entry
MetaOnEntry(ok) ==
    /\ xstate = "ready"
    /\ pos < Len(archive)
    /\ ok \/ ~ wellFormed
    /\ LET header == archive[pos + 1]
           info == getMetadataRelativePath(header.name)
       IN  IF ~ ok
           THEN /\ reject("StreamError")
                /\ xstate' = "errored"
                /\ UNCHANGED <<pos, packs, metaVars>>
           ELSE IF ~ info.found \/ info.relativePath = QEMU_BIN_NAME
           THEN /\ packs' = [packs EXCEPT ![1] =
                                packEntry(@, header.name, header.data)]
                /\ pos' = pos + 1
                /\ UNCHANGED <<xstate, outcome, failure, metaVars>>
           ELSE IF otherDirectoryFound(foundMetadataDirectory,
                                       info.metadataDirectory)
           THEN /\ reject("MultipleMetadataDirectoryError")
                /\ xstate' = "errored"
                /\ UNCHANGED <<pos, packs, metaVars>>
           ELSE /\ foundMetadataDirectory' = info.metadataDirectory
                /\ metadataFiles' = addMetadataFile(metadataFiles,
                                        info.relativePath, header.data)
                /\ pos' = pos + 1
                /\ UNCHANGED <<xstate, outcome, failure, packs>>
    /\ UNCHANGED <<images, archive, wellFormed, tasks, alternateDockerfiles,
                   handler>>
    /\ UNCHANGED <<buildVars, runVars, extVars>>

\* cloneTarStream at the end of the input: the output pack is finalized
MetaOnFinish ==
    /\ xstate = "ready"
    /\ pos = Len(archive)
    /\ xstate' = "finished"
    /\ packs' = [packs EXCEPT ![1].finalized = @ + 1]
    /\ outcome' = "resolved"
    /\ UNCHANGED <<images, archive, wellFormed, tasks, alternateDockerfiles,
                   pos, handler, failure>>
    /\ UNCHANGED <<metaVars, buildVars, runVars, extVars>>

\* path.join of two relative paths
join(a, b) == normalize(a \o b)

SecretsDirectory == <<"secrets">>

\* the Buffer | undefined that getSecretFile returns
NoFile == [found |-> FALSE, data |-> 0]
File(data) == [found |-> TRUE, data |-> data]

\* PathUtils.join('secrets', source)
secretFileKey(source) == join(SecretsDirectory, source)

\* getSecretFile(source), once the archive has been extracted
GetSecretFile(source) ==
    /\ xstate = "finished"
    /\ secretSource = << >>
    /\ secretSource' = source
    /\ secretFile' = IF secretFileKey(source) \in DOMAIN metadataFiles
                     THEN File(metadataFiles[secretFileKey(source)])
                     ELSE NoFile
    /\ UNCHANGED <<demuxVars, metaVars, buildVars, runVars, parseVars,
                   repoVars, clientVars, pathVars>>

SecretSources ==
    { <<"k">>, <<".", "k">>, <<"x">>, <<"..", "balena.yml">>, <<"..">> }

MetaEntryNames ==
    { <<".balena", "balena.yml">>, <<".", ".balena", "secrets", "k">>,
      <<".resin", "resin.yml">>, <<".resin", "qemu-execve">>,
      <<".balena", "bin", "qemu-execve">>, <<"Df">>, <<"a", ".resin", "x">> }

MetaArchives ==
    UNION { { [i \in 1..n |-> [name |-> f[i], data |-> i]] :
                f \in { g \in [1..n -> MetaEntryNames] :
                          \A i, j \in 1..n : i # j => g[i] # g[j] } } :
            n \in 0..MaxMetaEntries }

MetaInit ==
    /\ images = << >>
    /\ archive \in MetaArchives
    /\ wellFormed \in BOOLEAN
    /\ tasks = << >>
    /\ packs = <<EmptyPack>>
    /\ alternateDockerfiles = << >>
    /\ xstate = "ready"
    /\ pos = 0
    /\ handler = << >>
    /\ outcome = "pending"
    /\ failure = "none"
    /\ NoMeta
    /\ NoBuilds
    /\ NoRun
    /\ NoExt

MetaNext ==
    \/ \E ok \in BOOLEAN : MetaOnEntry(ok)
    \/ MetaOnFinish
    \/ \E source \in SecretSources : GetSecretFile(source)

MetaSpec == MetaInit /\ [][MetaNext]_vars

\* the metadata directory that path lies under, 0 if there is none
DirectoryOf(path) ==
    IF \E d \in 1..Len(metadataDirectories) : LiesUnder(metadataDirectories[d], path)
    THEN CHOOSE d \in 1..Len(metadataDirectories) :
            LiesUnder(metadataDirectories[d], path)
    ELSE 0

\* the path of a file below its metadata directory
BelowDirectory(path) ==
    LET n == normalize(path)
        d == metadataDirectories[DirectoryOf(path)]
    IN  SubSeq(n, Len(d) + 1, Len(n))

\* entry i of the archive is a metadata file: it lies under a metadata
\* directory and is not that directory's qemu-execve
IsMetadataFile(i) ==
    /\ DirectoryOf(archive[i].name) # 0
    /\ BelowDirectory(archive[i].name) # QEMU_BIN_NAME

Output == packs[1].entries

TwoDirectories(n) ==
    \E i, j \in 1..n :
        /\ IsMetadataFile(i) /\ IsMetadataFile(j)
        /\ DirectoryOf(archive[i].name) # DirectoryOf(archive[j].name)

GenerateTasks ==
    /\ xstate = "idle"
    /\ IF generateBuildTasksThrows(images)
       THEN /\ reject("Error")
            /\ xstate' = "errored"
            /\ UNCHANGED <<tasks, packs>>
       ELSE /\ tasks' = generateBuildTasks(images, Len(packs))
            /\ packs' = packs \o [i \in 1..packsBefore(images, Len(images))
                                    |-> EmptyPack]
            /\ xstate' = "generated"
            /\ outcome' = "resolved"
            /\ UNCHANGED failure
    /\ UNCHANGED <<images, archive, wellFormed, alternateDockerfiles, pos,
                   handler>>
    /\ UNCHANGED <<metaVars, buildVars, runVars, extVars>>

\* image descriptors, with build descriptors that lack a context
TaskDescriptors(svc) ==
    { ExternalImage(svc, "alpine"), ExternalImage(svc, "nginx:1"),
      BuildImage(svc, <<".">>, Null), BuildImage(svc, <<"a">>, Null),
      BuildImage(svc, <<".">>, <<"a", "Alt">>),
      BuildImage(svc, Null, Null), BuildImage(svc, Null, <<"a", "Alt">>) }

TaskCompositions ==
    UNION { { c \in [1..n -> UNION {TaskDescriptors(ServiceNames[i]) : i \in 1..n}] :
                \A i \in 1..n : c[i].serviceName = ServiceNames[i] } :
            n \in 1..MaxTasks }

TaskInit ==
    /\ images \in TaskCompositions
    /\ archive = << >>
    /\ wellFormed = TRUE
    /\ tasks = << >>
    /\ packs \in {<< >>, <<EmptyPack>>}
    /\ alternateDockerfiles = << >>
    /\ xstate = "idle"
    /\ pos = 0
    /\ handler = << >>
    /\ outcome = "pending"
    /\ failure = "none"
    /\ NoMeta
    /\ NoBuilds
    /\ NoRun
    /\ NoExt

TaskNext == GenerateTasks

TaskSpec == TaskInit /\ [][TaskNext]_vars

LacksContext ==
    \E i \in 1..Len(images) : ~ images[i].isString /\ images[i].context = Null

C9_WitnessRejected ==
    xstate = "errored" /\ LacksContext

(***************************************************************************)
(* Orchestrator: performBuilds and runBuildTask.                           *)
(***************************************************************************)
MaxBuilds == 3

LocalImage(serviceName, external, successful) ==
    [serviceName |-> serviceName, external |-> external,
     successful |-> successful]

\* an element of the result array that has not been filled
NoImage == [serviceName |-> "$none", external |-> FALSE, successful |-> FALSE]

\* the result stored at the next free position of the array
storeResultInOrderOfCompletion(res, i, image) ==
    LET free == {k \in 1..Len(res) : res[k] = NoImage}
        first == CHOOSE k \in free : \A m \in free : k <= m
    IN  [res EXCEPT ![first] = image]

\* Bluebird.map: the value of the i-th promise is the i-th result
storeResult(res, i, image) == [res EXCEPT ![i] = image]

\* runBuildTask without the check of the build stream
startTaskUnchecked(t) ==
    IF t.external
    THEN IF t.imageName = "$undefined" THEN "rejected" ELSE "pulling"
    ELSE "building"

\* runBuildTask up to its first wait
startTask(t) ==
    IF t.external
    THEN IF t.imageName = "$undefined" THEN "rejected" ELSE "pulling"
    ELSE IF t.buildStream = NoPack THEN "rejected" ELSE "building"

\* Bluebird.map resolves when every promise has resolved
settle(b) ==
    IF outcome = "pending" /\ \A i \in 1..Len(b) : b[i] = "resolved"
    THEN outcome' = "resolved" /\ UNCHANGED failure
    ELSE UNCHANGED <<outcome, failure>>

\* performBuilds: the mapper runs runBuildTask for every task
PerformBuilds ==
    /\ builds = << >>
    /\ builds' = [i \in 1..Len(tasks) |-> startTask(tasks[i])]
    /\ results' = [i \in 1..Len(tasks) |-> NoImage]
    /\ IF \E i \in 1..Len(tasks) : startTask(tasks[i]) = "rejected"
       THEN reject("BuildProcessError")
       ELSE UNCHANGED <<outcome, failure>>
    /\ UNCHANGED completion
    /\ UNCHANGED <<images, archive, wellFormed, tasks, packs,
                   alternateDockerfiles, xstate, pos, handler>>
    /\ UNCHANGED <<metaVars, runVars, extVars>>

\* pullExternal: the pull ends, well or not; the promise resolves
PullSettles(i, ok) ==
    /\ builds[i] = "pulling"
    /\ builds' = [builds EXCEPT ![i] = "resolved"]
    /\ results' = storeResult(results, i,
                      LocalImage(tasks[i].serviceName, TRUE, ok))
    /\ completion' = Append(completion, i)
    /\ settle(builds')
    /\ UNCHANGED <<images, archive, wellFormed, tasks, packs,
                   alternateDockerfiles, xstate, pos, handler>>
    /\ UNCHANGED <<metaVars, runVars, extVars>>

\* the hooks buildSuccess (ok) and buildFailure: the promise resolves
BuildSettles(i, ok) ==
    /\ builds[i] = "building"
    /\ builds' = [builds EXCEPT ![i] = "resolved"]
    /\ results' = storeResult(results, i,
                      LocalImage(tasks[i].serviceName, FALSE, ok))
    /\ completion' = Append(completion, i)
    /\ settle(builds')
    /\ UNCHANGED <<images, archive, wellFormed, tasks, packs,
                   alternateDockerfiles, xstate, pos, handler>>
    /\ UNCHANGED <<metaVars, runVars, extVars>>

\* createBuildStream reports an error: the promise rejects
BuildError(i) ==
    /\ builds[i] = "building"
    /\ builds' = [builds EXCEPT ![i] = "rejected"]
    /\ completion' = Append(completion, i)
    /\ reject("BuildProcessError")
    /\ UNCHANGED results
    /\ UNCHANGED <<images, archive, wellFormed, tasks, packs,
                   alternateDockerfiles, xstate, pos, handler>>
    /\ UNCHANGED <<metaVars, runVars, extVars>>

ExternalTask(svc, name) ==
    [external |-> TRUE, imageName |-> name, serviceName |-> svc,
     resolved |-> FALSE, buildStream |-> NoPack, context |-> Null,
     dockerfile |-> Null, dockerfilePath |-> Null]

BuildTask(svc, stream) ==
    [external |-> FALSE, imageName |-> "$undefined", serviceName |-> svc,
     resolved |-> FALSE, buildStream |-> stream, context |-> <<".">>,
     dockerfile |-> Null, dockerfilePath |-> Null]

\* the tasks a caller may pass for the i-th service
TasksOf(i) ==
    { ExternalTask(ServiceNames[i], "alpine"),
      ExternalTask(ServiceNames[i], "$undefined"),
      BuildTask(ServiceNames[i], i),
      BuildTask(ServiceNames[i], NoPack) }

TaskLists ==
    UNION { { l \in [1..n -> UNION {TasksOf(i) : i \in 1..n}] :
                \A i \in 1..n : l[i] \in TasksOf(i) } :
            n \in 1..MaxBuilds }

BuildsInit ==
    /\ images = << >>
    /\ archive = << >>
    /\ wellFormed = TRUE
    /\ tasks \in TaskLists
    /\ packs = << >>
    /\ alternateDockerfiles = << >>
    /\ xstate = "idle"
    /\ pos = 0
    /\ handler = << >>
    /\ outcome = "pending"
    /\ failure = "none"
    /\ NoMeta
    /\ NoBuilds
    /\ NoRun
    /\ NoExt

BuildsNext ==
    \/ PerformBuilds
    \/ \E i \in 1..Len(builds), ok \in BOOLEAN : PullSettles(i, ok)
    \/ \E i \in 1..Len(builds), ok \in BOOLEAN : BuildSettles(i, ok)
    \/ \E i \in 1..Len(builds) : BuildError(i)

BuildsSpec == BuildsInit /\ [][BuildsNext]_vars

\* C10: when performBuilds resolves, its result has one LocalImage per
\* task and the i-th one is that of the i-th task, whatever the order in
\* which the builds and pulls ended.
C10_ResultsInTaskOrder ==
    (builds # << >> /\ outcome = "resolved") =>
        /\ Len(results) = Len(tasks)
        /\ \A i \in 1..Len(tasks) :
              /\ results[i] # NoImage
              /\ results[i].serviceName = tasks[i].serviceName
              /\ results[i].external = tasks[i].external

\* performBuilds has resolved although a later task ended before an
\* earlier one
C10_Witness ==
    /\ builds # << >>
    /\ outcome = "resolved"
    /\ \E j, k \in 1..Len(completion) : j < k /\ completion[j] > completion[k]

\* a task of performBuilds whose promise has rejected
Faulted(i) == builds[i] = "rejected"

\* C11 (as claimed): a fault in one task of performBuilds is reported as
\* that task's record with successful = false, and the call as a whole
\* does not fail.
C11_FaultsAsRecords ==
    \A i \in 1..Len(builds) :
        Faulted(i) =>
            /\ outcome # "rejected"
            /\ results[i] # NoImage
            /\ ~ results[i].successful

\* C11 (amended): a fault in one task (a build task without a build
\* stream, an external task without an image name, an error reported
\* through the build's error handler) rejects the whole call with a
\* BuildProcessError and leaves no record for that task; the call rejects
\* only for such a fault; a failed build or pull is a record with
\* successful = false and is no fault.
C11_FaultRejectsCall ==
    builds # << >> =>
        /\ (\E i \in 1..Len(builds) : Faulted(i)) <=> outcome = "rejected"
        /\ outcome = "rejected" => failure = "BuildProcessError"
        /\ \A i \in 1..Len(builds) :
              /\ (~ tasks[i].external /\ tasks[i].buildStream = NoPack)
                    => Faulted(i)
              /\ Faulted(i) => results[i] = NoImage
              /\ builds[i] = "resolved" =>
                    /\ results[i].serviceName = tasks[i].serviceName
                    /\ results[i].external = tasks[i].external

\* one task has faulted while another has ended in an unsuccessful record
C11_Witness ==
    \E i, j \in 1..Len(builds) :
        /\ Faulted(i)
        /\ builds[j] = "resolved"
        /\ ~ results[j].successful
        /\ outcome = "rejected"

(***************************************************************************)
(* BuildDriver: runBuildTask on one task, with the task's resolver and the *)
(* daemon running beside it.                                               *)
(*                                                                         *)
(* An image reference is the sequence of its tokens, ':' and '/' being     *)
(* tokens of their own.  A Dockerfile is the sequence of its instructions; *)
(* an instruction is its keyword and the sequence of its arguments.        *)
(***************************************************************************)
MaxClock == 2
MaxLayers == 2

Undefined == "$undefined"
NoDockerfile == << >>           \* task.dockerfile undefined (or empty)

\* /^.+:[^\/]+$/ under any ':' anywhere in the name
hasImageTagAnyColon(name) ==
    \E i \in 1..Len(name) : name[i] = ":"

\* /^.+:[^\/]+$/.test(name)
hasImageTag(name) ==
    \E i \in 2..(Len(name) - 1) :
        /\ name[i] = ":"
        /\ \A j \in (i + 1)..Len(name) : name[j] # "/"

\* the name pullExternal pulls
pulledName(name) ==
    IF hasImageTag(name) THEN name ELSE name \o <<":", "latest">>

\* semver.coerce(ApiVersion) || '0.0.0'
coerce(version) == IF version = << >> THEN <<0, 0, 0>> ELSE version \o <<0>>

\* semver.satisfies(v, '>=1.38.0')
satisfiesApi(v) ==
    \/ v[1] > 1
    \/ v[1] = 1 /\ v[2] >= 38

Hosts == {"h1", "h2"}

\* a host without an entry in a registryconfig
NoEntry ==
    [present |-> FALSE, username |-> Undefined, password |-> Undefined,
     email |-> Undefined]

\* a key spread last, as in the earlier runBuildTask: the later value
\* stands, an undefined one too
mergeValueSpread(a, b) == b

\* _.merge on one key: an undefined source value is skipped
mergeValue(a, b) == IF b = Undefined THEN a ELSE b

\* _.merge on two registryconfig entries
mergeEntry(a, b) ==
    [present |-> TRUE,
     username |-> mergeValue(a.username, b.username),
     password |-> mergeValue(a.password, b.password),
     email |-> mergeValue(a.email, b.email)]

\* task.dockerOpts spread last, as in the earlier runBuildTask
mergeConfigCallerLast(caller, secrets) ==
    [h \in Hosts |-> IF caller[h].present THEN caller[h] ELSE secrets[h]]

\* _.merge(..., task.dockerOpts, { registryconfig: registrySecrets }) on
\* the registryconfig key
mergeConfig(caller, secrets) ==
    [h \in Hosts |->
        IF caller[h].present /\ secrets[h].present
        THEN mergeEntry(caller[h], secrets[h])
        ELSE IF secrets[h].present THEN secrets[h] ELSE caller[h]]

\* task.dockerOpts after the merge of runBuildTask
mergedOpts(t, use, secrets) ==
    [platform |-> mergeValue(IF use THEN t.dockerPlatform ELSE Undefined,
                             t.dockerOpts.platform),
     pull |-> t.dockerOpts.pull,
     registryconfig |-> mergeConfig(t.dockerOpts.registryconfig, secrets)]

\* the image reference of one FROM instruction, << >> when it has none
fromReference(args) ==
    IF Len(args) = 0 THEN << >>
    ELSE IF args[1].flag
         THEN IF Len(args) < 2 THEN << >> ELSE <<args[2].value>>
         ELSE <<args[1].value>>

RECURSIVE fromReferences(_)
\* imageReferences, pushed in the order of the FROM instructions
fromReferences(instructions) ==
    IF instructions = << >> THEN << >>
    ELSE IF Head(instructions).keyword = "FROM"
         THEN fromReference(Head(instructions).arguments)
                  \o fromReferences(Tail(instructions))
         ELSE fromReferences(Tail(instructions))

\* the Dockerfile has a FROM instruction
hasFrom(instructions) ==
    \E i \in 1..Len(instructions) : instructions[i].keyword = "FROM"

\* checkHasV1Manifest: an unavailable manifest is no v1 manifest
checkHasV1Manifest(manifests, repository) ==
    manifests[repository] = "v1"

\* the end of checkAllowDockerPlatformHandling: v1Images.length === 0
allowPlatform(manifests, references) ==
    ~ \E i \in 1..Len(references) : checkHasV1Manifest(manifests, references[i])

\* new LocalImage(docker, name, serviceName, { external, successful })
newLocalImage(name, serviceName, external, successful) ==
    [name |-> name, serviceName |-> serviceName, external |-> external,
     successful |-> successful, layers |-> << >>, startTime |-> NoTime,
     endTime |-> NoTime, error |-> Undefined, dockerfile |-> NoDockerfile,
     projectType |-> Undefined]

\* setImageProperties of taskHooks
setImageProperties(img, layers, start, now, t) ==
    [img EXCEPT !.layers = layers, !.startTime = start, !.endTime = now,
                !.dockerfile = t.dockerfile, !.projectType = t.projectType]

\* task.tag != null ? task.tag : imageId
successName(t, imageId) ==
    IF t.tag # Undefined THEN <<t.tag>> ELSE <<imageId>>

\* the name of a failed build that prefers the task's tag
failureNameOfTag(t, layers) ==
    IF t.tag # Undefined THEN <<t.tag>>
    ELSE IF layers = << >> THEN Null ELSE <<layers[Len(layers)]>>

\* layers[layers.length - 1]
failureName(t, layers) ==
    IF layers = << >> THEN Null ELSE <<layers[Len(layers)]>>

\* the hook buildSuccess
buildSuccess(t, imageId, layers, start, now) ==
    setImageProperties(
        newLocalImage(successName(t, imageId), t.serviceName, FALSE, TRUE),
        layers, start, now, t)

\* the hook buildFailure without the layers built so far
buildFailureNoLayers(t, error, layers, start, now) ==
    [setImageProperties(
        newLocalImage(failureName(t, layers), t.serviceName, FALSE, FALSE),
        << >>, start, now, t) EXCEPT !.error = error]

\* the hook buildFailure
buildFailure(t, error, layers, start, now) ==
    [setImageProperties(
        newLocalImage(failureName(t, layers), t.serviceName, FALSE, FALSE),
        layers, start, now, t) EXCEPT !.error = error]

\* the hook buildStream that leaves startTime alone
buildStreamHookNoTime(start, now) == start

\* the hook buildStream: startTime = Date.now()
buildStreamHook(start, now) == now

\* pullExternal's .then: the image of a pull that succeeded
pullSucceeded(t, name, start, now) ==
    [newLocalImage(name, t.serviceName, TRUE, TRUE)
        EXCEPT !.startTime = start, !.endTime = now]

\* pullExternal's .catch: the image of a pull that failed
pullFailed(t, error, start, now) ==
    [newLocalImage(Null, t.serviceName, TRUE, FALSE)
        EXCEPT !.error = error, !.startTime = start, !.endTime = now]

\* the image references checkAllowDockerPlatformHandling asks about
referencesOf(t) ==
    IF truthy(t.imageName) THEN <<"$:tag">>
    ELSE fromReferences(t.dockerfile)

\* checkAllowDockerPlatformHandling returns false before any manifest
noReferences(t) ==
    /\ ~ truthy(t.imageName)
    /\ \/ t.dockerfile = NoDockerfile
       \/ ~ hasFrom(t.dockerfile)

\* the driver's variables that a step of the resolver or the clock leaves
driverVars == <<driver, imageReferences, daemonCall, usePlatformOption,
                startTime, localImage, outcome, failure>>

\* the variables of the other specifications
otherVars == <<images, archive, wellFormed, tasks, packs,
               alternateDockerfiles, xstate, pos, handler, metaVars,
               buildVars, extVars>>

\* runBuildTask from the merge of the options to its next wait
Proceed(use) ==
    LET opts == mergedOpts(buildTask, use, env.registrySecrets)
        t == [buildTask EXCEPT !.dockerOpts = opts]
    IN  /\ usePlatformOption' = use
        /\ buildTask' = t
        /\ IF t.external
           THEN IF t.imageName = Null
                THEN /\ reject("BuildProcessError")
                     /\ driver' = "done"
                     /\ UNCHANGED <<daemonCall, startTime>>
                ELSE /\ driver' = "pulling"
                     /\ daemonCall' = [kind |-> "pull",
                                       name |-> pulledName(t.imageName),
                                       opts |-> opts]
                     /\ startTime' = clock
                     /\ UNCHANGED <<outcome, failure>>
           ELSE /\ driver' = "waiting"
                /\ UNCHANGED <<daemonCall, startTime, outcome, failure>>
        /\ UNCHANGED <<signal, resolver, env, clock, localImage, otherVars>>

\* runBuildTask is called: !!task.dockerPlatform && ... docker.version()
RunBuildTask ==
    /\ driver = "idle"
    /\ IF buildTask.dockerPlatform # Undefined
       THEN /\ driver' = "version"
            /\ UNCHANGED <<buildTask, signal, resolver, env, imageReferences,
                           daemonCall, usePlatformOption, startTime, clock,
                           localImage, outcome, failure, otherVars>>
       ELSE Proceed(FALSE) /\ UNCHANGED imageReferences

\* docker.version() answers; checkAllowDockerPlatformHandling reads the
\* task and asks for the manifests
VersionAnswers ==
    /\ driver = "version"
    /\ IF ~ satisfiesApi(coerce(env.apiVersion))
       THEN Proceed(FALSE) /\ UNCHANGED imageReferences
       ELSE IF noReferences(buildTask)
            THEN Proceed(FALSE) /\ UNCHANGED imageReferences
            ELSE /\ imageReferences' = referencesOf(buildTask)
                 /\ driver' = "manifests"
                 /\ UNCHANGED <<buildTask, signal, resolver, env, daemonCall,
                                usePlatformOption, startTime, clock,
                                localImage, outcome, failure, otherVars>>

\* Promise.all over the manifests has resolved
ManifestsAnswer ==
    /\ driver = "manifests"
    /\ Proceed(allowPlatform(env.manifests, imageReferences))
    /\ UNCHANGED imageReferences

\* task.buildStream == null, never
nullBuildStreamNever(t) == FALSE

\* task.buildStream == null
nullBuildStream(t) == t.buildStream = NoPack

\* the options of createBuildStream
buildOpts(t) ==
    [platform |-> t.dockerOpts.platform,
     pull |-> t.dockerOpts.pull,
     registryconfig |-> t.dockerOpts.registryconfig,
     t |-> t.tag, dockerfile |-> t.dockerfilePath]

\* resolve(image) of the promise runBuildTask returns
resolveWith(img) ==
    IF outcome = "pending"
    THEN outcome' = "resolved" /\ localImage' = img /\ UNCHANGED failure
    ELSE UNCHANGED <<outcome, failure, localImage>>

\* taskResolved.then(...): the check of the build stream, the options,
\* createBuildStream and the hook buildStream
Resolved ==
    /\ driver = "waiting"
    /\ signal \in {"none", "fired"}
    /\ IF nullBuildStream(buildTask)
       THEN /\ reject("BuildProcessError")
            /\ driver' = "done"
            /\ UNCHANGED <<daemonCall, startTime>>
       ELSE /\ daemonCall' = [kind |-> "build", name |-> Null,
                              opts |-> buildOpts(buildTask)]
            /\ startTime' = buildStreamHook(startTime, clock)
            /\ driver' = "building"
            /\ UNCHANGED <<outcome, failure>>
    /\ UNCHANGED <<buildTask, signal, resolver, env, imageReferences,
                   usePlatformOption, clock, localImage, otherVars>>

LayerIds == <<"sha:1", "sha:2", "sha:3", "sha:4">>

\* the daemon has built the image: buildSuccess(imageId, layers)
BuildSucceeds(n) ==
    /\ driver = "building"
    /\ env' = [env EXCEPT !.event = [kind |-> "buildSuccess",
                                     imageId |-> "sha:id", error |-> Undefined,
                                     layers |-> SubSeq(LayerIds, 1, n)]]
    /\ resolveWith(buildSuccess(buildTask, "sha:id", SubSeq(LayerIds, 1, n),
                                startTime, clock))
    /\ driver' = "done"
    /\ UNCHANGED <<buildTask, signal, resolver, imageReferences, daemonCall,
                   usePlatformOption, startTime, clock, otherVars>>

\* the daemon reports a failed build: buildFailure(error, layers)
BuildFails(n) ==
    /\ driver = "building"
    /\ env' = [env EXCEPT !.event = [kind |-> "buildFailure",
                                     imageId |-> Undefined,
                                     error |-> "daemon error",
                                     layers |-> SubSeq(LayerIds, 1, n)]]
    /\ resolveWith(buildFailure(buildTask, "daemon error",
                                SubSeq(LayerIds, 1, n), startTime, clock))
    /\ driver' = "done"
    /\ UNCHANGED <<buildTask, signal, resolver, imageReferences, daemonCall,
                   usePlatformOption, startTime, clock, otherVars>>

\* dockerProgress.pull(...) has ended, well (ok) or with an error
PullEnds(ok) ==
    /\ driver = "pulling"
    /\ env' = [env EXCEPT !.event = [kind |-> IF ok THEN "pulled"
                                              ELSE "pullFailed",
                                     imageId |-> Undefined,
                                     error |-> IF ok THEN Undefined
                                               ELSE "pull error",
                                     layers |-> << >>]]
    /\ resolveWith(IF ok
                   THEN pullSucceeded(buildTask, daemonCall.name, startTime,
                                      clock)
                   ELSE pullFailed(buildTask, "pull error", startTime, clock))
    /\ driver' = "done"
    /\ UNCHANGED <<buildTask, signal, resolver, imageReferences, daemonCall,
                   usePlatformOption, startTime, clock, otherVars>>

\* time passes while the daemon pulls or builds
Tick ==
    /\ driver \in {"pulling", "building"}
    /\ clock < MaxClock
    /\ clock' = clock + 1
    /\ UNCHANGED <<buildTask, signal, resolver, env, driverVars, otherVars>>

\* resolveTask's dockerfileHook: task.dockerfile = content
DockerfileHook ==
    /\ resolver = "reading"
    /\ buildTask' = [buildTask EXCEPT !.dockerfile = env.dockerfile]
    /\ resolver' = "hooked"
    /\ UNCHANGED <<signal, env, clock, driverVars, otherVars>>

\* a listener of 'resolver' that sets the project type only
ResolverListenerTypeOnly(resolverName) ==
    /\ resolver = "hooked"
    /\ buildTask' = [buildTask EXCEPT !.projectType = resolverName]
    /\ resolver' = "classified"
    /\ UNCHANGED <<signal, env, clock, driverVars, otherVars>>

\* the listener of 'resolver': projectType and resolved
ResolverListener(resolverName) ==
    /\ resolver = "hooked"
    /\ buildTask' = [buildTask EXCEPT !.projectType = resolverName,
                                      !.resolved = TRUE]
    /\ resolver' = "classified"
    /\ UNCHANGED <<signal, env, clock, driverVars, otherVars>>

\* the listener of 'resolved-name': dockerfilePath
ResolvedNameListener(resolvedName) ==
    /\ resolver = "classified"
    /\ buildTask' = [buildTask EXCEPT !.dockerfilePath = resolvedName]
    /\ resolver' = "named"
    /\ UNCHANGED <<signal, env, clock, driverVars, otherVars>>

\* the task's completion signal fires
SignalFires ==
    /\ resolver = "named"
    /\ resolver' = "done"
    /\ signal' = "fired"
    /\ UNCHANGED <<buildTask, env, clock, driverVars, otherVars>>

\* no strategy applies: the signal reports the error
ResolutionFails ==
    /\ resolver \in {"reading", "hooked"}
    /\ resolver' = "failed"
    /\ signal' = "error"
    /\ UNCHANGED <<buildTask, env, clock, driverVars, otherVars>>

CallerEntry ==
    [present |-> TRUE, username |-> "caller", password |-> "caller",
     email |-> "caller"]

ArchiveEntry ==
    [present |-> TRUE, username |-> "archive", password |-> "archive",
     email |-> Undefined]

\* dockerOpts.registryconfig as callers pass it
CallerConfigs ==
    { [h \in Hosts |-> NoEntry],
      [h \in Hosts |-> IF h = "h1" THEN CallerEntry ELSE NoEntry],
      [h \in Hosts |-> CallerEntry] }

\* the registry secrets of the uploaded archive
ArchiveSecrets ==
    { [h \in Hosts |-> NoEntry],
      [h \in Hosts |-> IF h = "h1" THEN ArchiveEntry ELSE NoEntry] }

ImageNames ==
    { <<"alpine">>, <<"alpine", ":", "3.1">>,
      <<"localhost", ":", "5000", "/", "alpine">>,
      <<"localhost", ":", "5000", "/", "alpine", ":", "3.1">> }

\* a BuildTask as runBuildTask may be given it
RunTask(external, name, stream, tag, platform, config) ==
    [external |-> external, imageName |-> name, serviceName |-> "s1",
     tag |-> tag, buildStream |-> stream, dockerPlatform |-> platform,
     dockerfile |-> NoDockerfile, projectType |-> Undefined,
     dockerfilePath |-> Undefined, resolved |-> FALSE,
     dockerOpts |-> [platform |-> Undefined, pull |-> Undefined,
                     registryconfig |-> config]]

Tags == {Undefined, "mytag"}
Platforms == {Undefined, "linux/386"}

\* dockerOpts.pull as callers pass it
Pulls == {Undefined, "true"}

ExternalRuns ==
    { [RunTask(TRUE, name, NoPack, Undefined, platform, config)
          EXCEPT !.dockerOpts.pull = pull] :
        name \in ImageNames \cup {Null}, platform \in Platforms,
        config \in CallerConfigs, pull \in Pulls }

BuildRuns ==
    { [RunTask(FALSE, Null, stream, tag, platform, config)
          EXCEPT !.dockerOpts.pull = pull] :
        stream \in {NoPack, 1}, tag \in Tags, platform \in Platforms,
        config \in CallerConfigs, pull \in Pulls }

Argument(value, flag) == [value |-> value, flag |-> flag]
Instruction(keyword, arguments) == [keyword |-> keyword, arguments |-> arguments]

\* the Dockerfiles a resolver publishes
Dockerfiles ==
    { <<Instruction("FROM", <<Argument("r1", FALSE)>>)>>,
      <<Instruction("FROM", <<Argument("--platform=linux/amd64", TRUE),
                              Argument("r1", FALSE)>>),
        Instruction("RUN", <<Argument("true", FALSE)>>)>>,
      <<Instruction("FROM", <<Argument("r1", FALSE)>>),
        Instruction("FROM", <<Argument("r2", FALSE)>>)>>,
      <<Instruction("FROM", <<Argument("--platform=linux/amd64", TRUE)>>)>> }

References == {"r1", "r2", "$:tag"}
ManifestKinds == {"v1", "v2", "unavailable"}
ApiVersions == { << >>, <<1, 37>>, <<1, 38>>, <<2, 0>> }

NoEvent ==
    [kind |-> "none", imageId |-> Undefined, error |-> Undefined,
     layers |-> << >>]

\* the surroundings of one run: what the daemon, the registries and the
\* resolver will answer
Environments(t, sig) ==
    { [apiVersion |-> v, manifests |-> m, dockerfile |-> f,
       registrySecrets |-> s, event |-> NoEvent] :
        v \in IF t.dockerPlatform = Undefined THEN {<<1, 38>>}
              ELSE ApiVersions,
        m \in IF t.dockerPlatform = Undefined
              THEN {[r \in References |-> "v2"]}
              ELSE IF t.external
                   THEN {[r \in References |-> k] : k \in ManifestKinds}
                   ELSE [References -> ManifestKinds],
        f \in IF sig = "pending" THEN Dockerfiles ELSE {NoDockerfile},
        s \in ArchiveSecrets }

RunInit ==
    /\ buildTask \in ExternalRuns \cup BuildRuns
    /\ signal \in IF buildTask.external \/ buildTask.buildStream = NoPack
                  THEN {"none"} ELSE {"none", "pending"}
    /\ resolver = IF signal = "pending" THEN "reading" ELSE "off"
    /\ env \in Environments(buildTask, signal)
    /\ driver = "idle"
    /\ imageReferences = << >>
    /\ daemonCall = << >>
    /\ usePlatformOption = FALSE
    /\ startTime = NoTime
    /\ clock = 0
    /\ localImage = << >>
    /\ outcome = "pending"
    /\ failure = "none"
    /\ images = << >>
    /\ archive = << >>
    /\ wellFormed = TRUE
    /\ tasks = << >>
    /\ packs = << >>
    /\ alternateDockerfiles = << >>
    /\ xstate = "idle"
    /\ pos = 0
    /\ handler = << >>
    /\ NoMeta
    /\ NoBuilds
    /\ NoExt

RunNext ==
    \/ RunBuildTask
    \/ VersionAnswers
    \/ ManifestsAnswer
    \/ Resolved
    \/ \E n \in 0..MaxLayers : BuildSucceeds(n)
    \/ \E n \in 0..MaxLayers : BuildFails(n)
    \/ \E ok \in BOOLEAN : PullEnds(ok)
    \/ Tick
    \/ DockerfileHook
    \/ ResolverListener("Standard Dockerfile")
    \/ ResolvedNameListener("Dockerfile")
    \/ SignalFires
    \/ ResolutionFails

RunSpec == RunInit /\ [][RunNext]_vars

\* the event loop runs every callback that is ready; the daemon and the
\* resolver end what they have begun
RunFairSpec == RunSpec /\ WF_vars(RunNext)

\* the daemon has reported the end of a build or a pull
Reported(kind) == env.event.kind = kind

\* C12: when the daemon reports a build failure, runBuildTask resolves
\* (it does not reject) with a LocalImage that is not successful, carries
\* the daemon's error and has the layers committed before the failure.
C12_BuildFailureResolves ==
    Reported("buildFailure") =>
        /\ outcome = "resolved"
        /\ ~ localImage.successful
        /\ ~ localImage.external
        /\ localImage.error = env.event.error
        /\ localImage.error # Undefined
        /\ localImage.layers = env.event.layers

\* a build has failed after a layer was committed
C12_Witness ==
    /\ Reported("buildFailure")
    /\ env.event.layers # << >>
    /\ outcome = "resolved"

\* C13: the name of a build's record depends on the outcome only: the tag,
\* or the image id without a tag, on buildSuccess; the last layer, or no
\* name when there is no layer, on buildFailure, whatever the tag.
C13_NameByOutcome ==
    /\ Reported("buildSuccess") =>
          localImage.name = IF buildTask.tag = Undefined
                            THEN <<env.event.imageId>>
                            ELSE <<buildTask.tag>>
    /\ Reported("buildFailure") =>
          LET n == Len(env.event.layers)
          IN  localImage.name = IF n = 0 THEN Null
                                ELSE <<env.event.layers[n]>>

\* a tagged task's build has failed before any layer: no name
C13_Witness ==
    /\ Reported("buildFailure")
    /\ buildTask.tag # Undefined
    /\ env.event.layers = << >>
    /\ localImage.name = Null

\* C14: every LocalImage of runBuildTask has startTime and endTime set,
\* startTime <= endTime; a build's buildSuccess or buildFailure comes
\* after the build stream was opened and the start time recorded.
C14_TimesSet ==
    /\ localImage # << >> =>
          /\ localImage.startTime # NoTime
          /\ localImage.endTime # NoTime
          /\ localImage.startTime <= localImage.endTime
    /\ (Reported("buildSuccess") \/ Reported("buildFailure")) =>
          /\ daemonCall # << >>
          /\ daemonCall.kind = "build"
          /\ startTime # NoTime

\* a build's record whose end is later than its start
C14_Witness ==
    /\ localImage # << >>
    /\ ~ localImage.external
    /\ localImage.startTime # NoTime
    /\ localImage.startTime < localImage.endTime

\* the position of the last '/' of a reference, 0 without one
LastSlash(name) ==
    LET slashes == {i \in 1..Len(name) : name[i] = "/"}
    IN  IF slashes = {} THEN 0
        ELSE CHOOSE i \in slashes : \A j \in slashes : j <= i

\* the reference ends in ':tag' after its last '/'
HasTagSuffix(name) ==
    \E i \in (LastSlash(name) + 2)..(Len(name) - 1) : name[i] = ":"

Unsuccessful ==
    \/ outcome = "rejected"
    \/ outcome = "resolved" /\ ~ localImage.successful

\* C17: when the resolution of a build task fails, runBuildTask
\* eventually settles, and not with a successful record.
C17_FailedResolutionSettles ==
    (signal = "error") ~> Unsuccessful

\* the step in which checkAllowDockerPlatformHandling reads the task's
\* Dockerfile to decide on the platform
ReadsDockerfile ==
    /\ driver = "version"
    /\ driver' # "version"
    /\ satisfiesApi(coerce(env.apiVersion))
    /\ ~ buildTask.external

\* C18: for a task with a resolver, runBuildTask reads the fields the
\* resolver publishes, the Dockerfile of the platform decision among them,
\* only after the task's completion signal has fired.
C18_ReadsAfterSignal ==
    [][(signal # "none" /\ ReadsDockerfile) => signal = "fired"]_vars

\* the image references of the FROM lines of a Dockerfile
FromImages(instructions) ==
    UNION { { instructions[i].arguments[j].value :
                j \in { k \in 1..Len(instructions[i].arguments) :
                          /\ ~ instructions[i].arguments[k].flag
                          /\ \A m \in 1..(k - 1) :
                                instructions[i].arguments[m].flag } } :
            i \in { k \in 1..Len(instructions) :
                      instructions[k].keyword = "FROM" } }

\* C19: the platform option is passed to the daemon for a build task if
\* and only if the task has a dockerPlatform, the API version is at least
\* 1.38 and no FROM reference of the resolved Dockerfile has a v1
\* manifest (an unavailable manifest counting as v2).
C19_PlatformPolicy ==
    (resolver = "done" /\ daemonCall # << >>) =>
        ( daemonCall.opts.platform # Undefined
          <=> /\ buildTask.dockerPlatform # Undefined
              /\ env.apiVersion # << >>
              /\ \/ env.apiVersion[1] > 1
                 \/ env.apiVersion[1] = 1 /\ env.apiVersion[2] >= 38
              /\ \A r \in FromImages(env.dockerfile) :
                    env.manifests[r] # "v1" )

\* the step of runBuildTask that merges the options
MergesOptions ==
    /\ driver \in {"idle", "version", "manifests"}
    /\ driver' \notin {"idle", "version", "manifests"}

MaxFiles == 2

EmptyMap == [k \in {} |-> 0]
Obj(props) == [type |-> "object", props |-> props, text |-> ""]
Str(text) == [type |-> "string", props |-> EmptyMap, text |-> text]
Num(text) == [type |-> "number", props |-> EmptyMap, text |-> text]
Arr == [type |-> "array", props |-> EmptyMap, text |-> ""]
has(value, key) == key \in DOMAIN value.props

\* a parser's outcome: the value, or the exception
Parsed(value) == [ok |-> TRUE, value |-> value]
Threw(value) == [ok |-> FALSE, value |-> value]

\* JSON.parse(bufData.toString())
JSONparse(data) ==
    IF data.syntax = "json" THEN Parsed(data.value) ELSE Threw(data.value)

\* jsYaml.safeLoad(bufData.toString()): a JSON text is a YAML text
safeLoad(data) ==
    IF data.syntax \in {"json", "yaml"} THEN Parsed(data.value)
    ELSE Threw(data.value)

\* the branch on foundType
load(data, type) ==
    IF type = "Json" THEN JSONparse(data) ELSE safeLoad(data)

\* the candidate list of the earlier variant of parseMetadata
potentialsEarlier ==
    << [name |-> <<"balena.yml">>, type |-> "Yaml"],
       [name |-> <<"balena.json">>, type |-> "Json"],
       [name |-> <<"resin.yml">>, type |-> "Yaml"],
       [name |-> <<"balena.json">>, type |-> "Json"] >>

\* parseMetadata's candidate list
potentials ==
    << [name |-> <<"balena.yml">>, type |-> "Yaml"],
       [name |-> <<"balena.yaml">>, type |-> "Yaml"],
       [name |-> <<"balena.json">>, type |-> "Json"],
       [name |-> <<"resin.yml">>, type |-> "Yaml"],
       [name |-> <<"resin.yaml">>, type |-> "Yaml"],
       [name |-> <<"resin.json">>, type |-> "Json"] >>

\* parseRegistrySecrets' candidate list
secretPotentials ==
    << [name |-> <<"registry-secrets.json">>, type |-> "Json"],
       [name |-> <<"registry-secrets.yml">>, type |-> "Yaml"],
       [name |-> <<"registry-secrets.yaml">>, type |-> "Yaml"] >>

present(list, files) == {i \in 1..Len(list) : list[i].name \in DOMAIN files}

\* the loop of parseMetadata, which breaks at the first hit; 0 if none
firstFound(list, files) ==
    IF present(list, files) = {} THEN 0
    ELSE CHOOSE i \in present(list, files) :
            \A j \in present(list, files) : i <= j

\* the loop of parseRegistrySecrets, which does not break; 0 if none
lastFound(list, files) ==
    IF present(list, files) = {} THEN 0
    ELSE CHOOSE i \in present(list, files) :
            \A j \in present(list, files) : i >= j

BuildVariablesKey == <<"build-variables">>
BuildSecretsKey == <<"build-secrets">>

\* parsedBalenaYml.decode: every top-level key is optional, an unknown
\* one is rejected
decodeBalenaYml(value) ==
    /\ value.type = "object"
    /\ DOMAIN value.props \subseteq {BuildVariablesKey, BuildSecretsKey}
    /\ \A k \in DOMAIN value.props : value.props[k].type = "object"

\* result.right[key] || {}
orEmpty(value, key) ==
    IF has(value, key) THEN value.props[key] ELSE Obj(EmptyMap)

EmptyBalenaYml ==
    [buildSecrets |-> Obj(EmptyMap), buildVariables |-> Obj(EmptyMap)]

\* parseMetadata up to its call of parseRegistrySecrets
parseBalenaYml(files) ==
    LET i == firstFound(potentials, files)
        loaded == load(files[potentials[i].name], potentials[i].type)
    IN  IF i = 0 THEN [ok |-> TRUE, balenaYml |-> EmptyBalenaYml]
        ELSE IF ~ loaded.ok \/ ~ decodeBalenaYml(loaded.value)
        THEN [ok |-> FALSE, balenaYml |-> EmptyBalenaYml]
        ELSE [ok |-> TRUE,
              balenaYml |->
                [buildSecrets |-> orEmpty(loaded.value, BuildSecretsKey),
                 buildVariables |->
                    orEmpty(loaded.value, BuildVariablesKey)]]

\* a whitespace character
Blank == " "

\* the pattern ^\S+$
matchesNoSpace(key) ==
    /\ Len(key) >= 1
    /\ \A i \in 1..Len(key) : key[i] # Blank

UsernameKey == <<"username">>
PasswordKey == <<"password">>

\* the schema of one entry: an object, username and password strings
\* where they are present, no other property
validEntry(entry) ==
    /\ entry.type = "object"
    /\ \A p \in DOMAIN entry.props :
          /\ p \in {UsernameKey, PasswordKey}
          /\ entry.props[p].type = "string"

\* registrySecretJsonSchema: an object, every key matching the pattern,
\* every value a valid entry
validSecrets(value) ==
    /\ value.type = "object"
    /\ \A k \in DOMAIN value.props :
          /\ matchesNoSpace(k)
          /\ validEntry(value.props[k])

\* RegistrySecretValidator.validateRegistrySecrets: the argument itself,
\* or RegistrySecretValidationError
validateRegistrySecrets(parsedJson) ==
    IF validSecrets(parsedJson) THEN Parsed(parsedJson)
    ELSE Threw(parsedJson)

\* the keys under which Docker Hub is known, the canonical one first
CanonicalHubKey == <<"https://index.docker.io/v1/">>
HubKeys == {<<"docker.io">>}

\* addCanonicalDockerHubEntry: an entry for Docker Hub is also entered
\* under the canonical key
addCanonicalDockerHubEntry(value) ==
    IF has(value, CanonicalHubKey) \/ DOMAIN value.props \cap HubKeys = {}
    THEN value
    ELSE LET hub == CHOOSE k \in DOMAIN value.props \cap HubKeys : TRUE
         IN  Obj([k \in DOMAIN value.props \cup {CanonicalHubKey} |->
                    IF k = CanonicalHubKey THEN value.props[hub]
                    ELSE value.props[k]])

\* parseRegistrySecrets
parseRegistrySecrets(files) ==
    LET i == lastFound(secretPotentials, files)
        loaded == load(files[secretPotentials[i].name],
                       secretPotentials[i].type)
    IN  IF i = 0 THEN Parsed(Obj(EmptyMap))
        ELSE IF ~ loaded.ok THEN Threw(loaded.value)
        ELSE IF ~ validateRegistrySecrets(loaded.value).ok
        THEN Threw(loaded.value)
        ELSE Parsed(addCanonicalDockerHubEntry(loaded.value))

\* BuildMetadata.parseMetadata
ParseMetadata ==
    /\ outcome = "pending"
    /\ LET yml == parseBalenaYml(metadataFiles)
           secrets == parseRegistrySecrets(metadataFiles)
       IN  IF ~ yml.ok
           THEN /\ outcome' = "threw"
                /\ failure' = "BalenaYMLValidationError"
                /\ UNCHANGED <<balenaYml, registrySecrets>>
           ELSE /\ balenaYml' = yml.balenaYml
                /\ IF ~ secrets.ok
                   THEN /\ outcome' = "threw"
                        /\ failure' = "RegistrySecretValidationError"
                        /\ UNCHANGED registrySecrets
                   ELSE /\ outcome' = "returned"
                        /\ registrySecrets' = secrets.value
                        /\ UNCHANGED failure
    /\ UNCHANGED <<images, archive, wellFormed, tasks, packs,
                   alternateDockerfiles, xstate, pos, handler>>
    /\ UNCHANGED <<metaVars, buildVars, runVars, repoVars, clientVars,
                   pathVars, secretVars>>

\* the documents of the metadata files
GoodEntry == Obj((UsernameKey :> Str("ann")) @@ (PasswordKey :> Str("p1")))
OtherEntry == Obj((UsernameKey :> Str("mck")) @@ (PasswordKey :> Str("p2")))
Entries ==
    { GoodEntry,
      Obj((<<"usrname">> :> Str("ann")) @@ (PasswordKey :> Str("p1"))),
      Obj((UsernameKey :> Str("ann")) @@ (PasswordKey :> Str("p1"))
            @@ (<<"email">> :> Str("e"))),
      Obj(UsernameKey :> Str("ann")),
      Obj((UsernameKey :> Str("ann")) @@ (PasswordKey :> Num("1"))),
      Str("ann") }

SecretsDocuments ==
    { Obj(<<"h1">> :> e) : e \in Entries }
        \cup { Obj(k :> OtherEntry) :
                 k \in {<<"host", " ", "dot", " ", "com">>, << >>,
                        <<"docker.io">>} }
        \cup { Arr }

YmlDocuments ==
    { Obj(EmptyMap),
      Obj(BuildVariablesKey :> Obj(<<"global">> :> Obj(<<"A">> :> Str("1")))),
      Obj((BuildVariablesKey :> Obj(<<"global">> :> Obj(<<"A">> :> Str("2"))))
            @@ (BuildSecretsKey :> Obj(<<"global">> :> Arr))),
      Obj(<<"build-args">> :> Obj(EmptyMap)) }

Data ==
    { [syntax |-> "json", value |-> v] :
        v \in SecretsDocuments \cup YmlDocuments }
        \cup { [syntax |-> "yaml", value |-> v] :
                 v \in {Obj(<<"h1">> :> GoodEntry)} \cup YmlDocuments }
        \cup { [syntax |-> "neither", value |-> Arr] }

\* the names under which the archive may hold metadata
MetadataNames ==
    { <<"balena.yml">>, <<"balena.yaml">>, <<"balena.json">>,
      <<"resin.yml">>, <<"resin.yaml">>, <<"resin.json">>,
      <<"registry-secrets.json">>, <<"registry-secrets.yml">>,
      <<"registry-secrets.yaml">> }

ParseInit ==
    /\ metadataFiles \in
          UNION { [S -> Data] :
                    S \in {T \in SUBSET MetadataNames :
                             Cardinality(T) <= MaxFiles} }
    /\ foundMetadataDirectory = Null
    /\ NoDemux
    /\ NoBuilds
    /\ NoRun
    /\ NoExt

ParseNext == ParseMetadata

ParseSpec == ParseInit /\ [][ParseNext]_vars

\* the file parseMetadata has to use: the first candidate that is present
Candidates ==
    << <<"balena.yml">>, <<"balena.yaml">>, <<"balena.json">>,
       <<"resin.yml">>, <<"resin.yaml">>, <<"resin.json">> >>
FirstCandidate ==
    CHOOSE i \in 1..Len(Candidates) :
        /\ Candidates[i] \in DOMAIN metadataFiles
        /\ \A j \in 1..(i - 1) : Candidates[j] \notin DOMAIN metadataFiles
NoCandidate ==
    \A i \in 1..Len(Candidates) : Candidates[i] \notin DOMAIN metadataFiles
IsJsonName(name) == name \in {<<"balena.json">>, <<"resin.json">>}
\* what the text of the first candidate denotes when it is read as its
\* extension says
ReadsAs(data, name) ==
    IF IsJsonName(name) THEN data.syntax = "json"
    ELSE data.syntax \in {"json", "yaml"}
Member(value, key) ==
    IF key \in DOMAIN value.props THEN value.props[key] ELSE Obj(EmptyMap)

\* C21: parseMetadata uses exactly the first file that is present among
\* balena.yml, balena.yaml, balena.json, resin.yml, resin.yaml and
\* resin.json, read as YAML or JSON by its extension, whatever the later
\* candidates hold; when none is present the build variables and the build
\* secrets are empty.
C21_FirstCandidate ==
    outcome # "pending" =>
      IF NoCandidate
      THEN /\ failure # "BalenaYMLValidationError"
           /\ balenaYml = EmptyBalenaYml
      ELSE LET name == Candidates[FirstCandidate]
               data == metadataFiles[name]
           IN  IF ~ ReadsAs(data, name) \/ ~ decodeBalenaYml(data.value)
               THEN failure = "BalenaYMLValidationError"
               ELSE /\ failure # "BalenaYMLValidationError"
                    /\ balenaYml.buildVariables
                         = Member(data.value, BuildVariablesKey)
                    /\ balenaYml.buildSecrets
                         = Member(data.value, BuildSecretsKey)

\* a later candidate holds other variables than the first one, which is
\* balena.yaml or a resin file, and the first one was used
C21_Witness ==
    /\ outcome = "returned"
    /\ ~ NoCandidate
    /\ FirstCandidate \in {2, 5, 6}
    /\ \E j \in (FirstCandidate + 1)..Len(Candidates) :
          /\ Candidates[j] \in DOMAIN metadataFiles
          /\ metadataFiles[Candidates[j]].value
               # metadataFiles[Candidates[FirstCandidate]].value
    /\ balenaYml.buildVariables # Obj(EmptyMap)

\* no candidate is present and parseMetadata returned
C21_WitnessNone ==
    /\ outcome = "returned"
    /\ NoCandidate
    /\ metadataFiles # << >>


\* the registry-secrets file parseRegistrySecrets reads, if any
SecretsNames ==
    << <<"registry-secrets.json">>, <<"registry-secrets.yml">>,
       <<"registry-secrets.yaml">> >>
SecretsRead ==
    /\ outcome # "pending"
    /\ failure # "BalenaYMLValidationError"
    /\ \E i \in 1..Len(SecretsNames) : SecretsNames[i] \in DOMAIN metadataFiles
SecretsFile ==
    LET i == CHOOSE i \in 1..Len(SecretsNames) :
                /\ SecretsNames[i] \in DOMAIN metadataFiles
                /\ \A j \in (i + 1)..Len(SecretsNames) :
                      SecretsNames[j] \notin DOMAIN metadataFiles
    IN  metadataFiles[SecretsNames[i]]
\* the file was read as a document: its text is of the syntax of its name
SecretsDecoded ==
    /\ SecretsRead
    /\ IF <<"registry-secrets.json">> \in DOMAIN metadataFiles
          /\ <<"registry-secrets.yml">> \notin DOMAIN metadataFiles
          /\ <<"registry-secrets.yaml">> \notin DOMAIN metadataFiles
       THEN SecretsFile.syntax = "json"
       ELSE SecretsFile.syntax \in {"json", "yaml"}
\* the documents the schema is said to accept
\* a key of the pattern ^\S+$ that the claim's source names
NoWhitespace(key) == Len(key) > 0 /\ \A i \in 1..Len(key) : key[i] # " "
UsernameAndPassword(entry) ==
    /\ entry.type = "object"
    /\ DOMAIN entry.props = {<<"username">>, <<"password">>}
    /\ entry.props[<<"username">>].type = "string"
    /\ entry.props[<<"password">>].type = "string"
Acceptable(value) ==
    /\ value.type = "object"
    /\ \A k \in DOMAIN value.props :
          NoWhitespace(k) /\ UsernameAndPassword(value.props[k])

\* C22: the validation of the registry secrets accepts a document if and
\* only if it is an object in which every key is free of whitespace and
\* every value is an object with exactly the two string properties
\* username and password; any other document raises
\* RegistrySecretValidationError and an accepted one is returned as it is.
C22_SecretsSchema ==
    SecretsDecoded =>
      /\ Acceptable(SecretsFile.value)
            <=> failure # "RegistrySecretValidationError"
      /\ validateRegistrySecrets(SecretsFile.value).ok
            => validateRegistrySecrets(SecretsFile.value).value
                 = SecretsFile.value

\* an entry without a password went through the validation
C22_MissingAccepted ==
    /\ SecretsDecoded
    /\ outcome = "returned"
    /\ \E k \in DOMAIN SecretsFile.value.props :
          <<"password">> \notin DOMAIN SecretsFile.value.props[k].props


(***************************************************************************)
(* registry/parsers: parseIndex and parseRepo.  A string is the sequence   *)
(* of its characters; -1 and NoString stand for indexOf's miss and for     *)
(* undefined.                                                              *)
(***************************************************************************)
MaxNameLen == 3

NoString == <<"$undefined">>

DEFAULT_INDEX_NAME == <<"d", "o", "c", "k", "e", "r", ".", "i", "o">>
DEFAULT_V2_REGISTRY == <<"h", "t", "t", "p", "s", ":", "/", "/", "r", "e", "g", "i", "s", "t", "r", "y", "-", "1", ".", "d", "o", "c", "k", "e", "r", ".", "i", "o">>
DEFAULT_LOGIN_SERVERNAME == <<"h", "t", "t", "p", "s", ":", "/", "/", "i", "n", "d", "e", "x", ".", "d", "o", "c", "k", "e", "r", ".", "i", "o", "/", "v", "1", "/">>
Localhost == <<"l", "o", "c", "a", "l", "h", "o", "s", "t">>
Library == <<"l", "i", "b", "r", "a", "r", "y">>
ProtoSep == <<":", "/", "/">>

LowerCase ==
    {"a", "b", "c", "d", "e", "f", "g", "h", "i", "j", "k", "l", "m",
     "n", "o", "p", "q", "r", "s", "t", "u", "v", "w", "x", "y", "z"}
Digit == {"0", "1", "2", "3", "4", "5", "6", "7", "8", "9"}

\* VALID_NS = /^[a-z0-9._-]*$/
VALID_NS(str) ==
    \A i \in 1..Len(str) : str[i] \in LowerCase \cup Digit \cup {".", "_", "-"}

\* VALID_REPO = /^[a-z0-9_/.-]*$/
VALID_REPO(str) ==
    \A i \in 1..Len(str) :
        str[i] \in LowerCase \cup Digit \cup {".", "_", "-", "/"}

\* str.indexOf(sub, from), positions counted from 0
indexOfFrom(str, sub, from) ==
    LET hits == {i \in from..(Len(str) - Len(sub)) :
                    SubSeq(str, i + 1, i + Len(sub)) = sub}
    IN  IF hits = {} THEN -1
        ELSE CHOOSE i \in hits : \A j \in hits : i <= j
indexOf(str, sub) == indexOfFrom(str, sub, 0)

\* str.slice(from, to) and str.slice(from), positions counted from 0
slice(str, from, to) == SubSeq(str, from + 1, to)
sliceFrom(str, from) == SubSeq(str, from + 1, Len(str))

\* splitStrOnce: the two parts in an array, or the string itself when the
\* separator does not occur
splitStrOnce(str, separator) ==
    LET index == indexOf(str, separator)
    IN  IF index < 0 THEN [array |-> FALSE, str |-> str, parts |-> << >>]
        ELSE [array |-> TRUE, str |-> str,
              parts |-> <<slice(str, 0, index), sliceFrom(str, index + 1)>>]

\* parts.length and parts[i] of what splitStrOnce returned: of the array,
\* or of the string (its length and its characters)
lengthOf(split) == IF split.array THEN 2 ELSE Len(split.str)
at(split, i) ==
    IF split.array THEN split.parts[i + 1]
    ELSE IF i < Len(split.str) THEN <<split.str[i + 1]>>
    ELSE NoString

\* the test of parseIndex and parseRepo for what looks like a host
looksLikeHost(str) ==
    \/ indexOf(str, <<".">>) # -1
    \/ indexOf(str, <<":">>) # -1
    \/ str = Localhost

NoIndex == [ok |-> FALSE, name |-> << >>, official |-> FALSE,
            scheme |-> NoString]

\* parseIndex
parseIndex(arg) ==
    IF arg = NoString \/ arg = << >> \/ arg = DEFAULT_LOGIN_SERVERNAME
    THEN [ok |-> TRUE, name |-> DEFAULT_INDEX_NAME, official |-> TRUE,
          scheme |-> <<"h", "t", "t", "p", "s">>]
    ELSE
    LET protoSepIdx == indexOf(arg, ProtoSep)
        scheme == IF protoSepIdx # -1 THEN slice(arg, 0, protoSepIdx)
                  ELSE NoString
        afterScheme == IF protoSepIdx # -1 THEN sliceFrom(arg, protoSepIdx + 3)
                       ELSE arg
        stripped == IF afterScheme # << >>
                       /\ afterScheme[Len(afterScheme)] = "/"
                    THEN slice(afterScheme, 0, Len(afterScheme) - 1)
                    ELSE afterScheme
        indexName == IF stripped = <<"i", "n", "d", "e", "x", ".">> \o DEFAULT_INDEX_NAME
                     THEN DEFAULT_INDEX_NAME ELSE stripped
        official == indexName = DEFAULT_INDEX_NAME
    IN  IF protoSepIdx # -1 /\ scheme \notin {<<"h", "t", "t", "p">>, <<"h", "t", "t", "p", "s">>}
        THEN NoIndex
        ELSE IF afterScheme = << >> THEN NoIndex
        ELSE IF ~ looksLikeHost(afterScheme) THEN NoIndex
        ELSE IF indexOf(stripped, <<"/">>) # -1 THEN NoIndex
        ELSE IF official /\ scheme = <<"h", "t", "t", "p">> THEN NoIndex
        ELSE [ok |-> TRUE, name |-> indexName, official |-> official,
              scheme |-> scheme]

\* parseRepo has thrown
NoParsedRepo ==
    [state |-> "threw", localName |-> << >>, canonicalName |-> << >>,
     remoteName |-> << >>, indexUrl |-> << >>, official |-> FALSE,
     indexName |-> << >>]

\* the checks of parseRepo on a namespace
validNamespace(ns) ==
    /\ Len(ns) >= 2
    /\ Len(ns) <= 255
    /\ VALID_NS(ns)
    /\ ~ (ns[1] = "-" /\ ns[Len(ns)] = "-")
    /\ indexOf(ns, <<"-", "-">>) = -1

\* parseRepo from the parsed index and the rest of the argument on
repoOf(index, repoNameFromArg) ==
    LET nameParts == splitStrOnce(repoNameFromArg, <<"/">>)
        split == lengthOf(nameParts) = 2
        name == IF split THEN at(nameParts, 1) ELSE repoNameFromArg
        ns == IF split THEN at(nameParts, 0)
              ELSE IF index.official THEN Library ELSE NoString
        remoteName == IF ns # NoString THEN ns \o <<"/">> \o name ELSE name
        localName == IF index.official
                     THEN IF ns = Library THEN name ELSE remoteName
                     ELSE index.name \o <<"/">> \o remoteName
    IN  IF ~ index.ok THEN NoParsedRepo
        ELSE IF split /\ ~ validNamespace(ns) THEN NoParsedRepo
        ELSE IF ~ VALID_REPO(name) THEN NoParsedRepo
        ELSE IF index.official
        THEN [state |-> "parsed", localName |-> localName,
              canonicalName |-> DEFAULT_INDEX_NAME \o <<"/">> \o localName,
              remoteName |-> remoteName, indexUrl |-> DEFAULT_V2_REGISTRY,
              official |-> TRUE, indexName |-> DEFAULT_INDEX_NAME]
        ELSE [state |-> "parsed", localName |-> localName,
              canonicalName |-> localName, remoteName |-> remoteName,
              indexUrl |-> (IF index.scheme = NoString THEN <<"h", "t", "t", "p", "s">>
                            ELSE index.scheme) \o ProtoSep \o index.name,
              official |-> FALSE, indexName |-> index.name]

\* parseRepo
parseRepo(arg) ==
    LET protoSepIdx == indexOf(arg, ProtoSep)
        slashIdx == indexOfFrom(arg, <<"/">>, protoSepIdx + 3)
        parts == splitStrOnce(arg, <<"/">>)
    IN  IF protoSepIdx # -1
        THEN IF slashIdx = -1 THEN NoParsedRepo
             ELSE repoOf(parseIndex(slice(arg, 0, slashIdx)),
                         sliceFrom(arg, slashIdx + 1))
        ELSE IF at(parts, 0) = NoString THEN NoParsedRepo
        ELSE IF lengthOf(parts) = 1 \/ ~ looksLikeHost(at(parts, 0))
        THEN repoOf(parseIndex(NoString), arg)
        ELSE repoOf(parseIndex(at(parts, 0)), at(parts, 1))

\* the argument has not been parsed yet
Unparsed == [NoParsedRepo EXCEPT !.state = "unparsed"]

\* parseRepo is called with repoArg
ParseRepo ==
    /\ repo.state = "unparsed"
    /\ repo' = parseRepo(repoArg)
    /\ UNCHANGED <<repoArg, demuxVars, metaVars, buildVars, runVars,
                   parseVars, clientVars, pathVars, secretVars>>

\* parseRepo is called with the canonical name of what it returned
ParseCanonicalName ==
    /\ repo.state = "parsed"
    /\ repoArg # repo.canonicalName
    /\ repoArg' = repo.canonicalName
    /\ repo' = parseRepo(repo.canonicalName)
    /\ UNCHANGED <<demuxVars, metaVars, buildVars, runVars, parseVars,
                   clientVars, pathVars, secretVars>>

\* the pieces of the repository names
Letters == <<"a", "b", "c", "d", "e", "f", "g", "h">>
Schemes == {<< >>, <<"h", "t", "t", "p", ":", "/", "/">>, <<"h", "t", "t", "p", "s", ":", "/", "/">>, <<"f", "t", "p", ":", "/", "/">>}
Indexes ==
    {NoString, DEFAULT_INDEX_NAME, <<"i", "n", "d", "e", "x", ".">> \o DEFAULT_INDEX_NAME, Localhost,
     Localhost \o <<":", "5", "0", "0", "0">>, <<"q", "u", "a", "y", ".", "i", "o">>, <<"f", "o", "o">>}
QuayIndex == <<"q", "u", "a", "y", ".", "i", "o">>
Namespaces ==
    {NoString, Library, <<"a", "b">>, <<"a">>, <<"a", "-", "-", "b">>, <<"-", "a", "-">>, <<"a", ".", "b">>,
     <<"-", "a", "b">>, <<"a", "b", "-">>, <<"A", "b">>, <<"a", "-", "b">>}
Names ==
    {SubSeq(Letters, 1, n) : n \in 0..Min(MaxNameLen, Len(Letters))}
        \cup {<<"b", "u", "s", "y", "b", "o", "x">>, <<"a", "/", "b">>, <<"A">>, <<".", "a">>}
withSlash(str) == IF str = NoString THEN << >> ELSE str \o <<"/">>
RepoNames ==
    { scheme \o withSlash(index) \o withSlash(ns) \o name :
        scheme \in Schemes, index \in Indexes, ns \in Namespaces,
        name \in Names }

RepoInit ==
    /\ repoArg \in RepoNames
    /\ repo = Unparsed
    /\ NoDemux
    /\ NoMeta
    /\ NoBuilds
    /\ NoRun
    /\ NoParse
    /\ NoClient
    /\ NoPath
    /\ NoSecret

RepoNext == ParseRepo \/ ParseCanonicalName

RepoSpec == RepoInit /\ [][RepoNext]_vars

\* C30: parseRepo is idempotent on its canonical name: where parseRepo(x)
\* returns, parseRepo of the canonical name it returned returns too, with
\* the same canonical name, remote name and index name.
C30_Idempotent ==
    repo.state = "parsed" =>
      LET again == parseRepo(repo.canonicalName)
      IN  /\ again.state = "parsed"
          /\ again.canonicalName = repo.canonicalName
          /\ again.remoteName = repo.remoteName
          /\ again.indexName = repo.indexName

\* parseRepo returned for a name of the library namespace of two
\* characters, and threw for its canonical name
C30_TwoCharacters ==
    /\ repo.state = "threw"
    /\ repoArg = DEFAULT_INDEX_NAME \o <<"/">> \o SubSeq(Letters, 1, 2)


(***************************************************************************)
(* RegistryClient: ping, login and getManifest.  Every request is one      *)
(* action that issues it and one that runs its callback with what the      *)
(* registry answered.  An exception thrown inside a request callback       *)
(* leaves the promise of the call unsettled: the call is stuck.            *)
(***************************************************************************)
MaxCalls == 2

\* this.currentAuth is undefined
NoAuth ==
    [type |-> Undefined, token |-> Undefined, username |-> Undefined,
     password |-> Undefined]

\* { username, password } of getLoginCredentials, {} being no credentials
Credentials(username, password) ==
    [username |-> username, password |-> password]
NoCredentials == Credentials(Undefined, Undefined)

\* indexUrl with its trailing '/' dropped, or with one added
otherSpelling(indexUrl) ==
    IF indexUrl # << >> /\ indexUrl[Len(indexUrl)] = "/"
    THEN SubSeq(indexUrl, 1, Len(indexUrl) - 1)
    ELSE indexUrl \o <<"/">>

\* getSecretForIndex: the key as it is, then in its other spelling
getSecretForIndex(secrets, indexUrl) ==
    IF indexUrl \in DOMAIN secrets THEN secrets[indexUrl]
    ELSE IF otherSpelling(indexUrl) \in DOMAIN secrets
    THEN secrets[otherSpelling(indexUrl)]
    ELSE NoCredentials

\* namesToCheck
namesToCheck(parsed) ==
    <<parsed.indexUrl, parsed.indexName>>
        \o (IF parsed.official THEN <<DEFAULT_LOGIN_SERVERNAME>> ELSE << >>)

\* the loop over namesToCheck: the first secret found
RECURSIVE firstSecret(_, _)
firstSecret(secrets, names) ==
    IF names = << >> THEN NoCredentials
    ELSE IF getSecretForIndex(secrets, Head(names)) # NoCredentials
    THEN getSecretForIndex(secrets, Head(names))
    ELSE firstSecret(secrets, Tail(names))

\* getLoginCredentials with the explicit username tried first
getLoginCredentialsExplicitFirst(config, parsed) ==
    IF config.username # Undefined
    THEN Credentials(config.username, config.password)
    ELSE firstSecret(config.registrySecrets, namesToCheck(parsed))

\* getLoginCredentials
getLoginCredentials(config, parsed) ==
    IF firstSecret(config.registrySecrets, namesToCheck(parsed)) # NoCredentials
    THEN firstSecret(config.registrySecrets, namesToCheck(parsed))
    ELSE IF config.username # Undefined
    THEN Credentials(config.username, config.password)
    ELSE NoCredentials

\* makeHttpHeaders: the authorization header, "none" for no header;
\* assert.ok(authInfo.username) throws for basic auth without username
makeHttpHeaders(authInfo) ==
    CASE authInfo.type = Undefined ->
            [ok |-> TRUE,
             authorization |-> IF authInfo.username = Undefined
                               THEN "none" ELSE "basic"]
      [] authInfo.type = "basic" ->
            [ok |-> authInfo.username # Undefined, authorization |-> "basic"]
      [] authInfo.type = "bearer" ->
            [ok |-> TRUE, authorization |-> "bearer"]
      [] OTHER -> [ok |-> TRUE, authorization |-> "none"]

\* a WWW-Authenticate header: the scheme alone or the scheme and its
\* parameters; form "none" is the absent header
Header(form, scheme, realm, service) ==
    [form |-> form, scheme |-> scheme, realm |-> realm, service |-> service]
NoHeader == Header("none", Undefined, NoString, NoString)
QuayHeader ==
    Header("params", "Bearer", <<"h", "t", "t", "p", "s", ":", "/", "/", "q", "u", "a", "y", ".", "i", "o", "/", "v", "2", "/", "a", "u", "t", "h">>, <<"q", "u", "a", "y", ".", "i", "o">>)

\* getChallengeHeader, with its hack for quay.io
getChallengeHeader(res) ==
    IF res.header = NoHeader /\ indexOf(repo.indexUrl, <<"q", "u", "a", "y", ".", "i", "o">>) >= 0
    THEN QuayHeader ELSE res.header

\* ParseAuthenticateChallenge: /(\w+)\s+(.*)/ needs parameters after the
\* scheme, and {} is returned without them
ParseAuthenticateChallenge(challengeHeader) ==
    IF challengeHeader.form = "params" THEN challengeHeader ELSE NoHeader

\* scheme.toLowerCase()
toLowerCase(scheme) ==
    CASE scheme = "Bearer" -> "bearer"
      [] scheme = "Basic" -> "basic"
      [] scheme = "Digest" -> "digest"
      [] OTHER -> scheme

\* /^(\w+):\/\// on the realm, in getRegistryAuthToken: the scheme is
\* neither http nor https
unsupportedScheme(realm) ==
    LET sep == indexOf(realm, ProtoSep)
    IN  /\ sep > 0
        /\ \A i \in 1..sep : realm[i] \in LowerCase \cup Digit \cup {"_"}
        /\ slice(realm, 0, sep) \notin {<<"h", "t", "t", "p">>, <<"h", "t", "t", "p", "s">>}

\* what a step of login leads to: the auth state and what comes next
Step(auth, next, error, header) ==
    [auth |-> auth, next |-> next, error |-> error, header |-> header]

\* the switch of login on loginConfig.type
configured(config) ==
    CASE config.type = "basic" ->
            [type |-> "basic", token |-> Undefined,
             username |-> getLoginCredentials(config, repo).username,
             password |-> getLoginCredentials(config, repo).password]
      [] config.type = "bearer" ->
            [type |-> "bearer", token |-> config.bearerAuthToken,
             username |-> Undefined,
               password |-> Undefined]
      [] config.type = "none" ->
            [type |-> "none", token |-> Undefined, username |-> Undefined,
               password |-> Undefined]
      [] OTHER -> NoAuth

\* login up to its raw ping
loginStart(auth, config, forceReset, forceValidate) ==
    LET reset == IF forceReset THEN NoAuth ELSE auth
        adopted == IF reset = NoAuth THEN configured(config) ELSE reset
    IN  IF reset = NoAuth /\ adopted # NoAuth /\ ~ forceValidate
        THEN Step(adopted, "true", "", NoHeader)
        ELSE IF ~ makeHttpHeaders(adopted).ok
        THEN Step(adopted, "rejected", "AssertionError", NoHeader)
        ELSE Step(adopted, "ping", "", NoHeader)

\* login from the parsed challenge on
challenge(auth, config, header) ==
    LET authChallenge == ParseAuthenticateChallenge(header)
        scheme == toLowerCase(authChallenge.scheme)
    IN  IF authChallenge.scheme = Undefined
        THEN Step(auth, "false", "", header)
        ELSE IF scheme = "basic"
        THEN Step([type |-> "basic", token |-> Undefined,
                   username |-> getLoginCredentials(config, repo).username,
                   password |-> getLoginCredentials(config, repo).password],
                  "true", "", header)
        ELSE IF scheme = "bearer"
        THEN IF authChallenge.realm = NoString
                \/ authChallenge.service = NoString
             THEN Step(auth, "rejected", "AssertionError", header)
             ELSE IF unsupportedScheme(authChallenge.realm)
             THEN Step(auth, "false", "", header)
             ELSE Step(auth, "token", "", header)
        ELSE Step(auth, "false", "", header)

\* res.statusCode ?? err.statusCode === 401: the status of a response is
\* a number, so the left operand decides, and a status is not 0
notAuthorizedExactly(res) == res.statusCode = 401
notAuthorized(res) == res.statusCode # 0

\* the callback of login's raw ping and what follows it
afterPing(auth, config, res) ==
    IF ~ res.err
    THEN Step(IF auth = NoAuth
              THEN [type |-> "none", token |-> Undefined,
                    username |-> Undefined,
               password |-> Undefined]
              ELSE auth, "true", "", NoHeader)
    ELSE IF ~ res.res
    THEN Step(auth, "rejected", "UnauthorizedError", NoHeader)
    ELSE IF notAuthorized(res)
    THEN IF getChallengeHeader(res) = NoHeader
         THEN Step(auth, "rejected", "UnauthorizedError", NoHeader)
         ELSE challenge(auth, config, getChallengeHeader(res))
    ELSE Step(auth, "rejected", "HttpError", NoHeader)

\* a token request that asks again when the answer has no token
afterTokenAgain(auth, res) ==
    IF ~ res.body.present THEN Step(auth, "stuck", "TypeError", NoHeader)
    ELSE IF res.body.token = Undefined
    THEN Step(auth, "token", "", NoHeader)
    ELSE Step([type |-> "bearer", token |-> res.body.token,
               username |-> Undefined,
               password |-> Undefined], "true", "", NoHeader)

\* the callback of getRegistryAuthToken's request and the one login
\* passes to it: body.token of an absent body throws in the callback
afterToken(auth, res) ==
    IF ~ res.body.present THEN Step(auth, "stuck", "TypeError", NoHeader)
    ELSE IF res.body.token = Undefined
    THEN Step(auth, "false", "", NoHeader)
    ELSE Step([type |-> "bearer", token |-> res.body.token,
               username |-> Undefined,
               password |-> Undefined], "true", "", NoHeader)

\* what a call settles with
Ended(kind, bool, status, schemaVersion, error) ==
    [kind |-> kind, bool |-> bool, status |-> status,
     schemaVersion |-> schemaVersion, error |-> error]
Pending == Ended("pending", FALSE, 0, 0, "")
Boolean(b) == Ended("boolean", b, 0, 0, "")
Status(n) == Ended("status", FALSE, n, 0, "")
Manifest(v) == Ended("manifest", FALSE, 0, v, "")
NoValue == Ended("undefined", FALSE, 0, 0, "")
Rejected(error, status) == Ended("rejected", FALSE, status, 0, error)

\* the arguments of a request callback
Response(err, res, statusCode, header, body) ==
    [err |-> err, res |-> res, statusCode |-> statusCode,
     header |-> header, body |-> body]
Body(sent, token, schemaVersion) ==
    [present |-> sent, token |-> token, schemaVersion |-> schemaVersion]
NoBody == Body(FALSE, Undefined, 0)
NoResponse == Response(FALSE, FALSE, 0, NoHeader, NoBody)
\* no callback has run since the call began
NoResponses ==
    [ping |-> NoResponse, token |-> NoResponse, manifest |-> NoResponse]

\* the status of the error login rejects with
statusOf(step, res) ==
    IF step.error = "UnauthorizedError" THEN 401
    ELSE IF step.error = "HttpError" THEN res.statusCode ELSE 0

\* the call c goes on after a step of its login
Continue(c, step, res) ==
    /\ currentAuth' = step.auth
    /\ CASE step.next = "ping" ->
               /\ call' = [c EXCEPT !.pc = "loginPing", !.pings = @ + 1,
                             !.authorization =
                                makeHttpHeaders(step.auth).authorization]
               /\ result' = Pending
         [] step.next = "token" ->
               /\ call' = [c EXCEPT !.pc = "token", !.tokens = @ + 1,
                             !.account =
                                getLoginCredentials(loginConfig, repo)]
               /\ result' = Pending
         [] step.next = "stuck" ->
               /\ call' = [c EXCEPT !.pc = "stuck"]
               /\ result' = Pending
         [] step.next = "rejected" ->
               /\ call' = [c EXCEPT !.pc = "idle"]
               /\ result' = Rejected(step.error, statusOf(step, res))
         [] step.next = "false" ->
               /\ call' = [c EXCEPT !.pc = "idle"]
               /\ result' = IF c.op = "login" THEN Boolean(FALSE)
                            ELSE Status(401)
         [] step.next = "true" /\ c.op = "login" ->
               /\ call' = [c EXCEPT !.pc = "idle"]
               /\ result' = Boolean(TRUE)
         [] step.next = "true" /\ c.op # "login" ->
               IF makeHttpHeaders(step.auth).ok
               THEN /\ call' = [c EXCEPT !.pc = "manifest"]
                    /\ result' = Pending
               ELSE /\ call' = [c EXCEPT !.pc = "idle"]
                    /\ result' = Rejected("AssertionError", 0)

\* the n-th call of the client, with the requests it has issued
Call(op, forceReset, forceValidate, maxSchemaVersion, n) ==
    [op |-> op, pc |-> "idle", forceReset |-> forceReset,
     forceValidate |-> forceValidate, maxSchemaVersion |-> maxSchemaVersion,
     pings |-> 0, tokens |-> 0, authorization |-> "none",
     account |-> NoCredentials, n |-> n]

\* a call of the client begins
Begin(op, forceReset, forceValidate, maxSchemaVersion) ==
    Call(op, forceReset, forceValidate, maxSchemaVersion, call.n + 1)

CanCall == call.pc = "idle" /\ call.n < MaxCalls

clientRest == <<demuxVars, metaVars, buildVars, runVars, parseVars,
                repoVars, loginConfig, pathVars, secretVars>>

\* ping()
Ping ==
    /\ CanCall
    /\ response' = NoResponses
    /\ IF makeHttpHeaders(currentAuth).ok
       THEN /\ call' = [Begin("ping", FALSE, FALSE, 0) EXCEPT
                          !.pc = "ping", !.pings = 1,
                          !.authorization =
                             makeHttpHeaders(currentAuth).authorization]
            /\ result' = Pending
       ELSE /\ call' = Begin("ping", FALSE, FALSE, 0)
            /\ result' = Rejected("AssertionError", 0)
    /\ UNCHANGED <<currentAuth, clientRest>>

\* the callback of ping: res.statusCode of an absent response throws
PingAnswers(res) ==
    /\ call.pc = "ping"
    /\ response' = [response EXCEPT !.ping = res]
    /\ IF currentAuth # NoAuth
       THEN /\ result' = Boolean(~ res.err)
            /\ call' = [call EXCEPT !.pc = "idle"]
       ELSE IF ~ res.err
       THEN /\ result' = Boolean(TRUE)
            /\ call' = [call EXCEPT !.pc = "idle"]
       ELSE IF ~ res.res
       THEN /\ result' = Pending
            /\ call' = [call EXCEPT !.pc = "stuck"]
       ELSE /\ result' = Boolean(res.statusCode = 401
                                    /\ getChallengeHeader(res) # NoHeader)
            /\ call' = [call EXCEPT !.pc = "idle"]
    /\ UNCHANGED <<currentAuth, clientRest>>

\* login(forceReset, forceValidate) up to its raw ping
Login(forceReset, forceValidate) ==
    /\ CanCall
    /\ response' = NoResponses
    /\ Continue(Begin("login", forceReset, forceValidate, 0),
                loginStart(currentAuth, loginConfig, forceReset,
                           forceValidate), NoResponse)
    /\ UNCHANGED clientRest

\* the callback of login's raw ping, up to the token request
LoginPingAnswers(res) ==
    /\ call.pc = "loginPing"
    /\ response' = [response EXCEPT !.ping = res]
    /\ Continue(call, afterPing(currentAuth, loginConfig, res), res)
    /\ UNCHANGED clientRest

\* the callback of the token request
TokenAnswers(res) ==
    /\ call.pc = "token"
    /\ response' = [response EXCEPT !.token = res]
    /\ Continue(call, afterToken(currentAuth, res), res)
    /\ UNCHANGED clientRest

\* getManifest(tag, maxSchemaVersion) up to the raw ping of its login()
GetManifest(maxSchemaVersion) ==
    /\ CanCall
    /\ response' = NoResponses
    /\ Continue(Begin("getManifest", FALSE, FALSE, maxSchemaVersion),
                loginStart(currentAuth, loginConfig, FALSE, FALSE),
                NoResponse)
    /\ UNCHANGED clientRest

\* the callback of the manifest request and the catch around the
\* promise: a throw in the callback is not caught by it
ManifestAnswers(res) ==
    /\ call.pc = "manifest"
    /\ response' = [response EXCEPT !.manifest = res]
    /\ IF res.err
       THEN /\ call' = [call EXCEPT !.pc = "idle"]
            /\ result' = IF res.statusCode = 401 THEN Status(404)
                         ELSE IF res.statusCode # 0
                         THEN Status(res.statusCode)
                         ELSE NoValue
       ELSE IF res.body.schemaVersion > call.maxSchemaVersion
       THEN /\ call' = [call EXCEPT !.pc = "stuck"]
            /\ result' = Pending
       ELSE /\ call' = [call EXCEPT !.pc = "idle"]
            /\ result' = Manifest(res.body.schemaVersion)
    /\ UNCHANGED <<currentAuth, clientRest>>

\* what the registry and the token server may answer
Headers ==
    { NoHeader,
      Header("params", "Bearer", <<"h", "t", "t", "p", "s", ":", "/", "/", "a">>, <<"s">>),
      Header("params", "Bearer", <<"a">>, <<"s">>),
      Header("params", "Bearer", <<"f", "t", "p", ":", "/", "/", "a">>, <<"s">>),
      Header("params", "Bearer", NoString, <<"s">>),
      Header("params", "Basic", <<"r">>, NoString),
      Header("bare", "Basic", NoString, NoString),
      Header("params", "Digest", <<"r">>, NoString) }
PingResponses ==
    { Response(FALSE, TRUE, 200, NoHeader, NoBody),
      Response(TRUE, FALSE, 0, NoHeader, NoBody) }
        \cup { Response(TRUE, TRUE, 401, h, NoBody) : h \in Headers }
        \cup { Response(TRUE, TRUE, code, h, NoBody) :
                 code \in {403, 500},
                 h \in {NoHeader, Header("params", "Bearer", <<"h", "t", "t", "p", "s", ":", "/", "/", "a">>, <<"s">>)} }
TokenResponses ==
    { Response(FALSE, TRUE, 200, NoHeader, Body(TRUE, "t1", 0)),
      Response(FALSE, TRUE, 200, NoHeader, Body(TRUE, Undefined, 0)),
      Response(TRUE, TRUE, 401, NoHeader, Body(TRUE, Undefined, 0)),
      Response(TRUE, FALSE, 0, NoHeader, NoBody) }
ManifestResponses ==
    { Response(FALSE, TRUE, 200, NoHeader, Body(TRUE, Undefined, v)) :
        v \in 1..3 }
        \cup { Response(TRUE, TRUE, code, NoHeader, NoBody) :
                 code \in {401, 404, 500} }
        \cup { Response(TRUE, FALSE, 0, NoHeader, NoBody) }

\* the options the client is constructed with
ClientNames == {<<"b", "u", "s", "y", "b", "o", "x">>, <<"q", "u", "a", "y", ".", "i", "o", "/", "a", "b", "/", "c">>}
HubWithoutSlash == SubSeq(DEFAULT_LOGIN_SERVERNAME, 1, Len(DEFAULT_LOGIN_SERVERNAME) - 1)
QuayUrl == <<"h", "t", "t", "p", "s", ":", "/", "/", "q", "u", "a", "y", ".", "i", "o">>

\* opts.registrySecrets: no secrets, or entries under one or two keys
RegistrySecretsOptions ==
    { EmptyMap,
      DEFAULT_V2_REGISTRY :> Credentials("u1", "p1"),
      (DEFAULT_V2_REGISTRY \o <<"/">>) :> Credentials("u2", "p2"),
      DEFAULT_INDEX_NAME :> Credentials("u3", "p3"),
      (DEFAULT_INDEX_NAME \o <<"/">>) :> Credentials("u4", "p4"),
      DEFAULT_LOGIN_SERVERNAME :> Credentials("u5", "p5"),
      HubWithoutSlash :> Credentials("u6", "p6"),
      (DEFAULT_V2_REGISTRY :> Credentials("u1", "p1"))
          @@ (DEFAULT_INDEX_NAME :> Credentials("u3", "p3")),
      ((DEFAULT_V2_REGISTRY \o <<"/">>) :> Credentials("u2", "p2"))
          @@ (DEFAULT_LOGIN_SERVERNAME :> Credentials("u5", "p5")),
      (DEFAULT_INDEX_NAME :> Credentials("u3", "p3"))
          @@ (DEFAULT_LOGIN_SERVERNAME :> Credentials("u5", "p5")),
      (QuayIndex :> Credentials("u7", "p7"))
          @@ (DEFAULT_LOGIN_SERVERNAME :> Credentials("u5", "p5")),
      (QuayUrl \o <<"/">>) :> Credentials("u8", "p8"),
      (QuayUrl :> Credentials("u9", "p9"))
          @@ (QuayIndex :> Credentials("u7", "p7")) }

Configurations ==
    { [type |-> type, username |-> username,
       password |-> IF username = Undefined THEN Undefined ELSE "pw",
       bearerAuthToken |-> token, registrySecrets |-> secrets] :
        type \in {Undefined, "basic", "bearer", "none"},
        username \in {Undefined, "user"},
        token \in {"t0"},
        secrets \in RegistrySecretsOptions }

\* new RegistryClient(opts)
ClientInit ==
    /\ repoArg \in ClientNames
    /\ repo = parseRepo(repoArg)
    /\ loginConfig \in Configurations
    /\ currentAuth = NoAuth
    /\ call = Call("none", FALSE, FALSE, 0, 0)
    /\ response = NoResponses
    /\ result = Ended("none", FALSE, 0, 0, "")
    /\ NoDemux
    /\ NoMeta
    /\ NoBuilds
    /\ NoRun
    /\ NoParse
    /\ NoPath
    /\ NoSecret

ClientNext ==
    \/ Ping
    \/ \E res \in PingResponses : PingAnswers(res)
    \/ \E forceReset, forceValidate \in BOOLEAN :
          Login(forceReset, forceValidate)
    \/ \E res \in PingResponses : LoginPingAnswers(res)
    \/ \E res \in TokenResponses : TokenAnswers(res)
    \/ \E maxSchemaVersion \in 1..2 : GetManifest(maxSchemaVersion)
    \/ \E res \in ManifestResponses : ManifestAnswers(res)

ClientSpec == ClientInit /\ [][ClientNext]_vars

\* the registry and the token server answer every request
ClientFairSpec == ClientSpec /\ WF_vars(ClientNext)


\* the callback of the raw ping of ping() has run
PingAnswered == call.op = "ping" /\ response.ping # NoResponse

\* C23: ping returns true on a successful response; with auth state it
\* returns false on every error, a 401 included; without auth state it
\* returns true on a 401 that carries a challenge header and false on
\* every other error.
C23_Ping ==
    PingAnswered =>
      LET res == response.ping
      IN  IF ~ res.err THEN result = Boolean(TRUE)
          ELSE IF currentAuth # NoAuth THEN result = Boolean(FALSE)
          ELSE IF res.res /\ res.statusCode = 401 /\ res.header # NoHeader
          THEN result = Boolean(TRUE)
          ELSE result = Boolean(FALSE)

\* without auth state the request of ping failed without a response, and
\* ping has not returned
C23_NoResponse ==
    /\ PingAnswered
    /\ currentAuth = NoAuth
    /\ response.ping.err /\ ~ response.ping.res
    /\ call.pc = "stuck"

\* C24: on a client constructed with an explicit authType every login
\* with forceValidate = false, the first and every later one, returns
\* true without a request, and currentAuth is of the configured type.
C24_ConfiguredLogin ==
    (call.op = "login" /\ ~ call.forceValidate
        /\ loginConfig.type # Undefined) =>
      /\ call.pc = "idle"
      /\ result = Boolean(TRUE)
      /\ call.pings = 0
      /\ call.tokens = 0
      /\ currentAuth.type = loginConfig.type

\* a second login(false, false) of a configured client has sent a ping
C24_LaterLoginPings ==
    /\ call.op = "login" /\ call.n = 2
    /\ ~ call.forceValidate /\ ~ call.forceReset
    /\ loginConfig.type # Undefined
    /\ call.pings = 1

\* the callback of the raw ping of login() has run
LoginPinged == call.op = "login" /\ response.ping # NoResponse

\* C25: when the raw ping of login succeeds, login returns true and
\* currentAuth is `none` if it was unset; when it fails with a status
\* other than 401, login rejects with that error and no token is asked
\* for.
C25_PingOutcome ==
    LoginPinged =>
      LET res == response.ping
      IN  /\ ~ res.err =>
                /\ result = Boolean(TRUE)
                /\ currentAuth.type
                     = IF call.authorization = "none" THEN "none"
                       ELSE call.authorization
          /\ (res.err /\ res.res /\ res.statusCode # 401) =>
                /\ result = Rejected("HttpError", res.statusCode)
                /\ call.tokens = 0

\* the ping failed with 403 and login went on to ask for a token
C25_TokenAfter403 ==
    /\ LoginPinged
    /\ response.ping.statusCode = 403
    /\ call.tokens = 1

\* the callback of the token request of login() has run
TokenAnswered == call.op = "login" /\ response.token # NoResponse

\* C26: in login with a bearer challenge, a token in the body of the
\* token server's answer makes currentAuth bearer with that token and
\* login return true; a failed request or a body without token makes
\* login return false; the call always ends.
C26_TokenOutcome ==
    /\ [](TokenAnswered =>
            LET res == response.token
            IN  IF res.body.present /\ res.body.token # Undefined
                THEN /\ result = Boolean(TRUE)
                     /\ currentAuth.type = "bearer"
                     /\ currentAuth.token = res.body.token
                ELSE result = Boolean(FALSE))
    /\ (call.op = "login" /\ call.pc = "token") ~> (call.pc = "idle")

\* the token request failed without a body, and login has not returned
C26_NoBody ==
    /\ TokenAnswered
    /\ ~ response.token.body.present
    /\ call.pc = "stuck"

\* C27: one invocation of login issues at most one raw ping and at most
\* one token request, whatever the registry answers and whatever the auth
\* state was.
C27_OnePingOneToken ==
    call.op \in {"login", "getManifest"} =>
        call.pings <= 1 /\ call.tokens <= 1

\* a later login, made with auth state, has pinged, has asked for a token
\* and has returned
C27_Witness ==
    /\ call.op = "login" /\ call.n = 2
    /\ call.authorization # "none"
    /\ call.pings = 1 /\ call.tokens = 1
    /\ call.pc = "idle"
    /\ response.token # NoResponse

\* getManifest has returned or has been rejected
ManifestEnded == call.op = "getManifest" /\ call.pc = "idle"

\* C28: getManifest returns the manifest or the numeric status of the
\* failure, never 401: an unauthorized outcome of the manifest request or
\* of the login step is reported as 404.
C28_Never401 ==
    ManifestEnded =>
      /\ result.kind \in {"manifest", "status"}
      /\ result.kind = "status" => result.status # 401
      /\ (response.manifest.err /\ response.manifest.statusCode = 401)
            => result = Status(404)

\* the login step of getManifest returned false and getManifest 401
C28_LoginFalse ==
    /\ ManifestEnded
    /\ response.manifest = NoResponse
    /\ result = Status(401)

\* the registry has answered the manifest request with a manifest
ManifestReceived ==
    /\ call.op = "getManifest"
    /\ response.manifest # NoResponse
    /\ ~ response.manifest.err
TooNew ==
    /\ ManifestReceived
    /\ response.manifest.body.schemaVersion > call.maxSchemaVersion

\* C29: a manifest of a schemaVersion above maxSchemaVersion makes
\* getManifest end with an invalid-content error and is never returned; a
\* manifest of a schemaVersion up to maxSchemaVersion is returned as it
\* is.
C29_SchemaVersion ==
    /\ [](ManifestReceived =>
            IF TooNew THEN result.kind # "manifest"
            ELSE result = Manifest(response.manifest.body.schemaVersion))
    /\ TooNew ~> (call.pc = "idle" /\ result.kind = "rejected"
                    /\ result.error = "InvalidContentError")

\* the manifest is of a schemaVersion above maxSchemaVersion and
\* getManifest has not ended
C29_Stuck == TooNew /\ call.pc = "stuck"

(***************************************************************************)
(* PathUtils.contains asked about two or three paths.                      *)
(***************************************************************************)
MaxPathLen == 2

Segments == {".", "..", "a", "a..", "f"}

Paths == UNION { [1..n -> Segments] : n \in 0..MaxPathLen }

\* the paths path.normalize leaves as they are
NormalizedPaths == { p \in Paths : normalize(p) = p }

\* PathUtils.contains(path1, path2) for every two of the paths
Contains ==
    /\ containment = << >>
    /\ containment' = [ij \in (1..Len(pathArgs)) \X (1..Len(pathArgs)) |->
                          contains(pathArgs[ij[1]], pathArgs[ij[2]])]
    /\ UNCHANGED <<demuxVars, metaVars, buildVars, runVars, parseVars,
                   repoVars, clientVars, pathArgs, secretVars>>

PathInit ==
    /\ pathArgs \in (Paths \X Paths)
                    \cup (NormalizedPaths \X NormalizedPaths \X NormalizedPaths)
    /\ containment = << >>
    /\ NoDemux
    /\ NoMeta
    /\ NoBuilds
    /\ NoRun
    /\ NoParse
    /\ NoRepo
    /\ NoClient
    /\ NoSecret

PathNext == Contains

PathSpec == PathInit /\ [][PathNext]_vars

\* a is the beginning of b
IsPrefix(a, b) == Len(a) <= Len(b) /\ SubSeq(b, 1, Len(a)) = a

\* inner, normalized, is outer or lies below it
Below(outer, inner) ==
    IsPrefix(resolve(normalize(outer)), resolve(normalize(inner)))

\* C31: contains(outer, inner) is true if and only if inner, normalized,
\* equals outer or lies below it; a path below outer with a segment whose
\* name ends in '..' is contained, and contains('.', '..') is false.
C31_Contains ==
    containment # << >> =>
        \A ij \in DOMAIN containment :
            containment[ij] <=> Below(pathArgs[ij[1]], pathArgs[ij[2]])

\* contains was asked about '.' and 'a../f'
C31_DotDotSegment ==
    /\ containment # << >>
    /\ pathArgs = << <<".">>, <<"a..", "f">> >>

\* C32: on normalized relative paths contains is reflexive and transitive:
\* contains(a, a) holds, and contains(a, b) and contains(b, c) together
\* imply contains(a, c).
C32_ReflexiveTransitive ==
    (containment # << >> /\ Len(pathArgs) = 3) =>
        /\ \A i \in 1..3 : containment[<<i, i>>]
        /\ (containment[<<1, 2>>] /\ containment[<<2, 3>>])
              => containment[<<1, 3>>]

\* contains was asked about '.', 'a..' and 'a../f'
C32_ThroughDotDotSegment ==
    /\ containment # << >>
    /\ pathArgs = << <<".">>, <<"a..">>, <<"a..", "f">> >>

\* contains is reflexive on the paths, and transitive where the relative
\* path from the first to the last has no inner segment ending in '..'
C32_ElsewhereTransitive ==
    (containment # << >> /\ Len(pathArgs) = 3) =>
        /\ \A i \in 1..3 : containment[<<i, i>>]
        /\ ( /\ containment[<<1, 2>>]
             /\ containment[<<2, 3>>]
             /\ ~ \E k \in 1..(Len(pathArgs[3]) - 1) : EndsDotDot(pathArgs[3][k]) )
              => containment[<<1, 3>>]

(***************************************************************************)
(* Properties of the metadata store: qemu-execve and the secret files.     *)
(***************************************************************************)
\* entry i of the archive is a file named qemu-execve somewhere under a
\* metadata directory
IsQemuBinary(i) ==
    /\ DirectoryOf(archive[i].name) # 0
    /\ LET n == normalize(archive[i].name) IN n[Len(n)] = "qemu-execve"

\* entry i of the archive has been copied to the output archive
Forwarded(i) ==
    \E k \in 1..Len(Output) : Output[k] = [name |-> archive[i].name, data |-> i]

\* entry i of the archive has been stored as a metadata file
StoredAsMetadata(i) ==
    \E name \in DOMAIN metadataFiles : metadataFiles[name] = i

\* C34: a file named qemu-execve under a metadata directory, directly in it
\* or in a subdirectory of it, is forwarded to the output archive and is
\* not stored as a metadata file.
C34_QemuForwarded ==
    \A i \in 1..pos : IsQemuBinary(i) => (Forwarded(i) /\ ~ StoredAsMetadata(i))

\* .balena/bin/qemu-execve has been handled
C34_InSubdirectory ==
    \E i \in 1..pos : archive[i].name = <<".balena", "bin", "qemu-execve">>

\* a qemu-execve directly in a metadata directory is forwarded and not
\* stored
C34_DirectlyForwarded ==
    \A i \in 1..pos :
        (IsQemuBinary(i) /\ Len(BelowDirectory(archive[i].name)) = 1)
            => (Forwarded(i) /\ ~ StoredAsMetadata(i))

\* the stored metadata file with the bytes data lies under secrets/
UnderSecrets(data) ==
    LET below == BelowDirectory(archive[data].name)
    IN  Len(below) > 1 /\ below[1] = "secrets"

\* C40: getSecretFile(source) only returns the bytes of a stored file under
\* the secrets/ subdirectory of the metadata directory, whatever the
\* source ('..' segments included), and returns nothing when
\* secrets/<source> was not stored.
C40_OnlySecrets ==
    secretSource # << >> =>
        /\ secretFile.found => UnderSecrets(secretFile.data)
        /\ normalize(SecretsDirectory \o secretSource) \notin DOMAIN metadataFiles
              => ~ secretFile.found

\* getSecretFile('../balena.yml') was called with .balena/balena.yml stored
C40_Escapes ==
    /\ secretSource = <<"..", "balena.yml">>
    /\ <<"balena.yml">> \in DOMAIN metadataFiles

\* for a source without '..' segments getSecretFile returns a file under
\* secrets/ or nothing
C40_WithoutDotDot ==
    (secretSource # << >> /\ \A k \in 1..Len(secretSource) : secretSource[k] # "..") =>
        /\ secretFile.found => UnderSecrets(secretFile.data)
        /\ normalize(SecretsDirectory \o secretSource) \notin DOMAIN metadataFiles
              => ~ secretFile.found

(***************************************************************************)
(* Properties of parseRegistrySecrets: which file is read.                 *)
(***************************************************************************)
\* the registry-secrets files that are present, by their place in the
\* candidate order
SecretsPresent ==
    {i \in 1..Len(SecretsNames) : SecretsNames[i] \in DOMAIN metadataFiles}

\* the first registry-secrets file of the candidate order, alone
FirstSecretsOnly ==
    LET i == CHOOSE i \in SecretsPresent : \A j \in SecretsPresent : i <= j
    IN  (SecretsNames[i] :> metadataFiles[SecretsNames[i]])

\* C35: with more than one registry-secrets file present, parsing uses the
\* first one in the order registry-secrets.json, registry-secrets.yml,
\* registry-secrets.yaml and ignores the later ones.
C35_FirstSecretsFile ==
    (SecretsRead /\ Cardinality(SecretsPresent) > 1) =>
        LET first == parseRegistrySecrets(FirstSecretsOnly)
        IN  IF first.ok
            THEN outcome = "returned" /\ registrySecrets = first.value
            ELSE failure = "RegistrySecretValidationError"

\* registry-secrets.json and registry-secrets.yml were both present, with
\* different documents that the schema accepts
C35_TwoFiles ==
    /\ SecretsRead
    /\ outcome = "returned"
    /\ SecretsPresent = {1, 2}
    /\ metadataFiles[SecretsNames[1]].value # metadataFiles[SecretsNames[2]].value

\* with one registry-secrets file present, parsing uses it
C35_OneFile ==
    (SecretsRead /\ Cardinality(SecretsPresent) = 1) =>
        LET first == parseRegistrySecrets(FirstSecretsOnly)
        IN  IF first.ok
            THEN outcome = "returned" /\ registrySecrets = first.value
            ELSE failure = "RegistrySecretValidationError"

(***************************************************************************)
(* Properties of parseRepo: the namespace constraints.                     *)
(***************************************************************************)
\* ns violates a namespace constraint
ViolatesConstraint(ns) ==
    \/ Len(ns) < 2
    \/ Len(ns) > 255
    \/ \E i \in 1..Len(ns) : ns[i] \notin LowerCase \cup Digit \cup {".", "_", "-"}
    \/ ns[1] = "-"
    \/ ns[Len(ns)] = "-"
    \/ \E i \in 1..(Len(ns) - 1) : ns[i] = "-" /\ ns[i + 1] = "-"

\* the repository names of the model whose namespace is ns: after an index,
\* or without one where ns cannot be taken for a host
WithNamespace(ns) ==
    { withSlash(index) \o ns \o <<"/">> \o name :
        index \in {i \in {NoString, DEFAULT_INDEX_NAME, QuayIndex} :
                     i = NoString => ~ looksLikeHost(ns)},
        name \in {n \in Names : n # << >> /\ indexOf(n, <<"/">>) = -1} }

\* C38: parseRepo rejects every repository namespace that violates a
\* namespace constraint: shorter than 2 or longer than 255 characters, a
\* character outside [a-z0-9._-], a leading '-', a trailing '-' (each alone
\* suffices), or two consecutive hyphens.
C38_NamespaceConstraints ==
    repo.state # "unparsed" =>
        \A ns \in Namespaces \ {NoString} :
            (ViolatesConstraint(ns) /\ repoArg \in WithNamespace(ns))
                => repo.state = "threw"

\* parseRepo was called with '-ab/a'
C38_LeadingHyphen ==
    /\ repo.state # "unparsed"
    /\ repoArg = <<"-", "a", "b", "/", "a">>

\* a namespace that violates a constraint other than a hyphen at one end
\* only is rejected
C38_OtherConstraints ==
    repo.state # "unparsed" =>
        \A ns \in Namespaces \ {NoString} :
            ( /\ ViolatesConstraint(ns)
              /\ ~ (Len(ns) >= 2 /\ (ns[1] = "-") # (ns[Len(ns)] = "-"))
              /\ repoArg \in WithNamespace(ns) )
                => repo.state = "threw"

(***************************************************************************)
(* Properties of the registry client: the credentials and the challenge.   *)
(***************************************************************************)
\* the registry secret under key, if there is one
SecretAt(key) ==
    IF key \in DOMAIN loginConfig.registrySecrets
    THEN loginConfig.registrySecrets[key] ELSE NoCredentials

\* the registry secret under key with or without a trailing '/'
SecretAtEither(key) ==
    IF SecretAt(key) # NoCredentials THEN SecretAt(key)
    ELSE SecretAt(otherSpelling(key))

\* the explicit username and password, or empty credentials
Explicit ==
    IF loginConfig.username # Undefined
    THEN Credentials(loginConfig.username, loginConfig.password)
    ELSE NoCredentials

\* the credentials in the order the claim gives: only indexUrl is tried
\* with and without a trailing '/'
ClaimedCredentials ==
    IF SecretAtEither(repo.indexUrl) # NoCredentials
    THEN SecretAtEither(repo.indexUrl)
    ELSE IF SecretAt(repo.indexName) # NoCredentials
    THEN SecretAt(repo.indexName)
    ELSE IF repo.official /\ SecretAt(DEFAULT_LOGIN_SERVERNAME) # NoCredentials
    THEN SecretAt(DEFAULT_LOGIN_SERVERNAME)
    ELSE Explicit

\* the credentials with each of the three keys tried with and without a
\* trailing '/'
LookedUpCredentials ==
    IF SecretAtEither(repo.indexUrl) # NoCredentials
    THEN SecretAtEither(repo.indexUrl)
    ELSE IF SecretAtEither(repo.indexName) # NoCredentials
    THEN SecretAtEither(repo.indexName)
    ELSE IF repo.official
            /\ SecretAtEither(DEFAULT_LOGIN_SERVERNAME) # NoCredentials
    THEN SecretAtEither(DEFAULT_LOGIN_SERVERNAME)
    ELSE Explicit

\* the client uses the credentials c: for Basic auth and for its token
\* request
Uses(c) ==
    /\ currentAuth.type = "basic" =>
          Credentials(currentAuth.username, currentAuth.password) = c
    /\ call.pc = "token" => call.account = c

\* C36: the credentials for Basic auth and for token acquisition are the
\* registry secret keyed by the repo's indexUrl (with or without a trailing
\* '/'), else the one keyed by indexName, else (official repos only) the
\* one keyed by the canonical Docker Hub URL; only without such an entry
\* the explicit username and password; otherwise empty credentials.
C36_CredentialsOrder == Uses(ClaimedCredentials)

\* C36, amended: as C36, with each of the three keys tried as it is and
\* then with its trailing '/' removed or added; an explicit username never
\* overrides a matching registry secret.
C36_CredentialsOrderEitherSpelling == Uses(LookedUpCredentials)

\* Basic auth holds the secret keyed by 'docker.io/', the indexName with
\* a trailing '/', of a client that also has an explicit username
C36_SecretOverExplicit ==
    /\ currentAuth.type = "basic"
    /\ currentAuth.username = "u4"
    /\ loginConfig.username = "user"
    /\ DOMAIN loginConfig.registrySecrets = {DEFAULT_INDEX_NAME \o <<"/">>}

\* the step in which login handles the challenge of a 401 answer to its
\* raw ping
Challenged(scheme) ==
    /\ call.pc = "loginPing"
    /\ call.op = "login"
    /\ response'.ping.res
    /\ response'.ping.statusCode = 401
    /\ toLowerCase(response'.ping.header.scheme) = scheme

\* C37: in login, for every 401 challenge whose scheme is basic in any
\* case, a bare 'Basic' header without parameters included, currentAuth
\* becomes basic with the looked-up credentials and login returns true;
\* for a challenge of a scheme other than basic or bearer login returns
\* false and currentAuth is left as it was.
C37_BasicChallenge ==
    [][ /\ Challenged("basic") =>
            /\ currentAuth'.type = "basic"
            /\ Credentials(currentAuth'.username, currentAuth'.password)
                  = LookedUpCredentials
            /\ result' = Boolean(TRUE)
        /\ Challenged("digest") =>
            /\ currentAuth' = currentAuth
            /\ result' = Boolean(FALSE) ]_vars

\* login has answered false to a bare 'Basic' challenge
C37_BareBasic ==
    /\ call.op = "login"
    /\ response.ping.header = Header("bare", "Basic", NoString, NoString)
    /\ result = Boolean(FALSE)

\* C37 for the challenges that have parameters
C37_WithParameters ==
    [][ /\ (Challenged("basic") /\ response'.ping.header.form = "params") =>
            /\ currentAuth'.type = "basic"
            /\ Credentials(currentAuth'.username, currentAuth'.password)
                  = LookedUpCredentials
            /\ result' = Boolean(TRUE)
        /\ Challenged("digest") =>
            /\ currentAuth' = currentAuth
            /\ result' = Boolean(FALSE) ]_vars

(***************************************************************************)
(* Properties of the build driver: the caller's options and the platform.  *)
(***************************************************************************)
\* C39: a caller-supplied task.dockerOpts in which platform is present but
\* undefined never removes or overrides the platform derived from
\* task.dockerPlatform: whenever the platform policy allows passing it,
\* the options sent to the daemon carry platform = task.dockerPlatform,
\* and the other caller-supplied options (pull) are kept.
C39_UndefinedPlatformKept ==
    /\ [](daemonCall # << >> =>
            /\ usePlatformOption =>
                  /\ buildTask.dockerPlatform # Undefined
                  /\ daemonCall.opts.platform = buildTask.dockerPlatform
            /\ daemonCall.opts.pull = buildTask.dockerOpts.pull)
    /\ [][MergesOptions =>
            /\ buildTask.dockerOpts.platform = Undefined
            /\ buildTask'.dockerOpts.pull = buildTask.dockerOpts.pull]_vars

\* the daemon was asked for a build with the platform of the task and the
\* caller's pull option
C39_Witness ==
    /\ daemonCall # << >>
    /\ daemonCall.kind = "build"
    /\ usePlatformOption
    /\ daemonCall.opts.platform = "linux/386"
    /\ daemonCall.opts.pull = "true"

(***************************************************************************)
(* resolveTask on one task, with the events of the resolver.               *)
(***************************************************************************)
\* the stream Resolve.resolveInput returns
ResolvedStream == 2

\* resolveTask(task, architecture, deviceType, resolveListeners)
ResolveTask ==
    /\ resolver = "uncalled"
    /\ IF buildTask.external
       THEN /\ resolver' = "off"
            /\ UNCHANGED <<buildTask, signal>>
       ELSE /\ resolver' = "reading"
            /\ signal' = "pending"
            /\ buildTask' = [buildTask EXCEPT !.buildStream = ResolvedStream]
    /\ UNCHANGED <<env, clock, driverVars, otherVars>>

\* the names the resolver reports
ResolverNames == {"Standard Dockerfile", "Dockerfile.template"}
ResolvedNames == {"Dockerfile", "Dockerfile.template"}

\* the project of one resolution: its Dockerfile and the names reported
Projects ==
    { [apiVersion |-> <<1, 38>>, manifests |-> [r \in References |-> "v2"],
       dockerfile |-> f, registrySecrets |-> [h \in Hosts |-> NoEntry],
       event |-> NoEvent, resolverName |-> n, resolvedName |-> d] :
        f \in Dockerfiles, n \in ResolverNames, d \in ResolvedNames }

ResolveInit ==
    /\ buildTask \in ExternalRuns \cup {t \in BuildRuns : t.buildStream # NoPack}
    /\ signal = "none"
    /\ resolver = "uncalled"
    /\ env \in Projects
    /\ driver = "idle"
    /\ imageReferences = << >>
    /\ daemonCall = << >>
    /\ usePlatformOption = FALSE
    /\ startTime = NoTime
    /\ clock = 0
    /\ localImage = << >>
    /\ NoDemux
    /\ NoMeta
    /\ NoBuilds
    /\ NoExt

ResolveNext ==
    \/ ResolveTask
    \/ DockerfileHook
    \/ ResolverListener(env.resolverName)
    \/ ResolvedNameListener(env.resolvedName)
    \/ SignalFires
    \/ ResolutionFails

ResolveSpec == ResolveInit /\ [][ResolveNext]_vars

\* the resolver emits 'resolver'
ResolverEvent == resolver = "hooked" /\ resolver' = "classified"

\* the resolver emits 'resolved-name'
ResolvedNameEvent == resolver = "classified" /\ resolver' = "named"

====
